---- MODULE Spec2Model ----
(***************************************************************************)
(* Model of python-advancedlogging: the LogListener of handlers.py (a      *)
(* queue consumer run either on a worker thread or as a cooperative        *)
(* asyncio task), the callers of its API and the producers of its queue.   *)
(*                                                                         *)
(* Every API call is a sequence of steps, one per statement that reads or  *)
(* writes shared state, so that calls made by different threads can        *)
(* interleave.  Spec serialises the calls (a call runs up to the point     *)
(* where it blocks or returns before another thread's call runs);          *)
(* SpecRace lets the statements of concurrent calls interleave freely.     *)
(* The consumers run concurrently with the callers in both.                *)
(***************************************************************************)
EXTENDS Integers, Sequences, FiniteSets, TLC

(* ------------------------------ bounds --------------------------------- *)
MaxRecords   == 2   \* records the producers enqueue in one behaviour
MaxSentinels == 2   \* sentinels enqueued in one behaviour (calls of stop)
MaxConsumers == 2   \* consumption routines created in one behaviour
MaxCalls     == 3   \* calls made on the listener in one behaviour

(* --------------------------- program values ---------------------------- *)
\* logging.INFO and logging.ERROR, two of the severities of default_levels
INFO  == 20
ERROR == 40
\* the producers log alternately at ERROR and at INFO
LevelOf(i) == IF i % 2 = 1 THEN ERROR ELSE INFO

\* QueueListener._sentinel is None; a queue item is a record or None
None == [id |-> 0, levelno |-> 0]
LogRecord(i, l) == [id |-> i, levelno |-> l]

\* the callers: t1 runs inside an asyncio event loop, t2 is a plain thread
Threads == {"t1", "t2"}
HasRunningLoop(t) == t = "t1"

\* the handlers given to LogListener(queue, *handlers): a hook-less stream
\* handler thresholded at INFO and a PickableHandler file handler at ERROR
handlers ==
  << [level |-> INFO,  hooks |-> FALSE, lock |-> TRUE, stream |-> TRUE,
      file |-> FALSE],
     [level |-> ERROR, hooks |-> TRUE,  lock |-> TRUE, stream |-> TRUE,
      file |-> TRUE] >>
HandlerIds == DOMAIN handlers

ConsumerIds == 1..MaxConsumers
NoConsumer  == [pc |-> "none", mode |-> "none", via |-> "none",
                owner |-> "none", record |-> None, exit |-> "none"]

VARIABLES
  queue,                 \* self.queue: the items not yet dequeued, head first
  alive_event,           \* self.alive_event.is_set()
  terminate_event,       \* self.terminate_event.is_set()
  is_async_flag,         \* self._is_async
  thread,                \* self._thread: 0 (None) or the worker's consumer id
  respect_handler_level, \* self.respect_handler_level
  has_task_done,         \* hasattr(queue, 'task_done')
  task_done_calls,       \* number of q.task_done() calls made
  consumers,             \* the consumption routines (_monitor / _monitor_async)
  joiner,                \* the join_async task made by join_async_task()
  pc,                    \* position of each caller thread in its API call
  args,                  \* the arguments of the call a thread is in
  returned,              \* the call that returned in the last step, if any
  calls,                 \* number of API calls made so far
  delivered,             \* per handler: ids of the records handler.handle() got
  dispatched,            \* ids of the records passed to self.handle(), in order
  enqueued,              \* every item ever put on the queue, in order
  concurrent,            \* do the statements of concurrent calls interleave
  logger_level,          \* AdvancedLogger: self._logger.level
  logger_disabled,       \* self._logger.disabled
  quick_check,           \* self.quick_check
  allow_append,          \* self.allow_append
  append_message,        \* self.append_message, as a sequence of text pieces
  logcall,               \* the call made on the logger in the last step
  manager,               \* logging's loggers by name: level, propagate, ...
  self_logger,           \* the logger a wrapper wraps (its _logger)
  self_type,             \* the concrete class of that wrapper
  hcall,                 \* the getChild / setParent call of the last step
  hier_calls,            \* number of changes made to the loggers so far
  hobj,                  \* a handler: its class and its __dict__
  hsnap,                 \* the snapshot the last __getstate__ call returned
  hnew,                  \* the handler the last restore or safe copy produced
  hevent,                \* the handler call of the last step and what it did
  locks_made,            \* number of locks createLock() has made so far
  showwarning,           \* warnings.showwarning, the process-wide function
  saved_showwarning,     \* WarningsLogger._warnings_showwarning
  capturing,             \* WarningsLogger.capturing
  current_showwarning,   \* WarningsLogger.current_showwarning
  warning_handler,       \* WarningsLogger.warning_handler
  wevent,                \* the call on the bridge in the last step
  class_loggers,         \* ObjectWithLogging.class_loggers, a class attribute
  objects,               \* the ObjectWithLogging instances: their __dict__
  dict_heap,             \* the dict objects the instances' loggers refer to
  oevent,                \* the call on an instance in the last step
  pairs,                 \* PerformanceLogger: self.pairs, per type its dict
  clock,                 \* the number of readings self.timer() has given
  pair_hist,             \* which unnamed pair calls were made so far
  pevent,                \* the pair call of the last step and its result
  wlogger,               \* the live logger a pickled wrapper wraps
  wjar,                  \* what the last pickle.dumps of the wrapper wrote
  wrestored,             \* the wrapper the last pickle.loads produced
  wlocks,                \* number of handler locks made for this logger
  gevent                 \* the call on the wrapper in the last step

\* the AdvancedLogger and the logger it wraps
loggerVars == << logger_level, logger_disabled, quick_check, allow_append,
                 append_message, logcall >>

\* fixed at construction of the listener, or not part of the listener
\* the hierarchy of loggers and a wrapper of one of them
hierVars == << manager, self_logger, self_type, hcall, hier_calls >>

\* the components other than the listener and the AdvancedLogger in use
\* a handler that is pickled and unpickled
pickleVars == << hobj, hsnap, hnew, hevent, locks_made >>

\* the bridge between the warnings module and logging
warnVars == << showwarning, saved_showwarning, capturing, current_showwarning,
               warning_handler, wevent >>

\* the objects with loggers of their own
objVars == << class_loggers, objects, dict_heap, oevent >>

\* the timed pairs of a PerformanceLogger
pairVars == << pairs, clock, pair_hist, pevent >>

\* an AdvancedLogger that is pickled and unpickled
wrapVars == << wlogger, wjar, wrestored, wlocks, gevent >>

extVars == << hierVars, pickleVars, warnVars, objVars, pairVars, wrapVars >>

configVars == << respect_handler_level, has_task_done, concurrent, loggerVars,
                 extVars >>
\* the caller threads
callVars   == << pc, args, returned, calls >>
\* what the handlers received
logVars    == << delivered, dispatched >>
\* the queue and its history
queueVars  == << queue, enqueued >>
\* the listener's own attributes
attrVars   == << alive_event, terminate_event, is_async_flag, thread >>
\* the routines and tasks of the listener
taskVars   == << consumers, joiner >>

listenerVars == << queueVars, attrVars, taskVars, logVars, task_done_calls >>

vars == << listenerVars, callVars, configVars >>

NoArgs == [op |-> "none", join |-> FALSE, asyn |-> FALSE, timeout |-> FALSE,
           target |-> 0, mine |-> 0]
NoJoiner == [pc |-> "none", owner |-> "none", timeout |-> FALSE, target |-> 0]
\* no snapshot, and no call returned in the last step
NoState  == [keys |-> {}, safe_handlers |-> << >>]
NoReturn == [op |-> "none", value |-> "none", warnings |-> 0, wait |-> "none",
             timeout |-> FALSE, state |-> NoState, item |-> None]

(* ------------------------------ helpers -------------------------------- *)
\* LogListener.is_alive
is_alive == alive_event

\* LogListener.is_async (the property getter)
is_async ==
  IF is_alive
    THEN (IF thread # 0 THEN FALSE ELSE TRUE)
    ELSE is_async_flag

\* the consumption routines that exist, and those that have not returned
Created  == {c \in ConsumerIds : consumers[c].pc # "none"}
Active   == {c \in ConsumerIds : consumers[c].pc \notin {"none", "done"}}
FreeIds  == ConsumerIds \ Created
NewId    == CHOOSE c \in FreeIds : \A d \in FreeIds : c <= d

\* the routine is being run directly, as the tests do
RunDirectly == \E c \in ConsumerIds :
                 consumers[c].via = "direct" /\ consumers[c].pc # "done"

\* calls that are past their is_alive() check and will create a consumer
Starting == {t \in Threads : pc[t] \in {"start_set", "start_mode",
                                         "task_mode", "task_set",
                                         "task_create"}}

\* positions where a caller thread is between calls or waiting
WaitPcs == {"idle", "start_run", "join_spin", "join_thread", "dq_sleep"}

\* a thread may take a step of a call: always when calls interleave, and
\* otherwise only while no other thread is in the middle of a call
Turn(t) == concurrent \/ \A u \in Threads \ {t} : pc[u] \in WaitPcs

\* the consumer tasks of the event loop of thread t
TasksOf(t) ==
  {c \in Created : consumers[c].via = "task" /\ consumers[c].owner = t}
\* positions where an asyncio task is suspended (not yet run, in
\* asyncio.sleep, or returned)
\* as YieldPcs, but a task is also suspended while it holds a record
YieldPcsHolding == {"none", "new", "sleep", "done", "got"}
YieldPcs == {"none", "new", "sleep", "done"}
JoinerYields(t) == joiner.owner = t => joiner.pc \in YieldPcs
\* the thread's own code can run: no task of its loop is in the middle of a run
LoopFree(t) ==
  /\ \A c \in TasksOf(t) : consumers[c].pc \in YieldPcs
  /\ JoinerYields(t)
\* a consumption routine can take a step: a worker thread and a routine under
\* asyncio.run always; a task only while the thread of its event loop is
\* between calls and no other task of that loop is running
Scheduled(c) ==
  \/ consumers[c].via # "task"
  \/ /\ consumers[c].via = "task"
     /\ pc[consumers[c].owner] = "idle"
     /\ JoinerYields(consumers[c].owner)
     /\ \A d \in TasksOf(consumers[c].owner) \ {c} :
          consumers[d].pc \in YieldPcs

\* how the call that thread t is about to return from has waited for the
\* consumer: in the busy wait, in Thread.join, inside asyncio.run, by
\* leaving the wait to a join_async task, or not at all
WaitOf(t) ==
  CASE pc[t] = "join_spin"              -> "spin"
    [] pc[t] = "join_thread"            -> "thread"
    [] pc[t] = "start_run"              -> "run"
    [] pc[t] = "join" /\ args[t].asyn   -> "task"
    [] OTHER                            -> "none"

\* the call op of thread t returns (or raises) value v after w warnings
Return(t, op, v, w) ==
  /\ pc' = [pc EXCEPT ![t] = "idle"]
  /\ args' = [args EXCEPT ![t] = NoArgs]
  /\ returned' = [op |-> op, value |-> v, warnings |-> w,
                  wait |-> WaitOf(t), timeout |-> args[t].timeout,
                  state |-> NoState, item |-> None]

\* the call of thread t goes on to position p
Goto(t, p) ==
  /\ pc' = [pc EXCEPT ![t] = p]
  /\ returned' = NoReturn
  /\ UNCHANGED args

\* a step of a consumer, a task or a producer: no call returns
Quiet == returned' = NoReturn /\ UNCHANGED << pc, args, calls >>

\* thread t is between calls and its event loop, if any, runs no task
Callable(t) == pc[t] = "idle" /\ Turn(t) /\ LoopFree(t)

\* thread t makes a call
Begin(t) == Callable(t) /\ calls < MaxCalls /\ calls' = calls + 1

\* thread t, at position p of a call, takes the next step of the call
At(t, p) == pc[t] = p /\ Turn(t) /\ UNCHANGED calls

\* thread t, waiting at position p, is released
Waiting(t, p) == pc[t] = p /\ UNCHANGED calls

Records(seq) == SelectSeq(seq, LAMBDA x : x # None)
Sentinels(seq) == SelectSeq(seq, LAMBDA x : x = None)

(* ------------------------------- Init ---------------------------------- *)
\* LogListener.__init__ (and QueueListener.__init__): an empty queue shared
\* with the producers, _thread None, _is_async True, both events clear.
\* The listener is the one of the tests (a multiprocessing.Queue, which has
\* no task_done, and the default respect_handler_level False) or one on a
\* queue.Queue with respect_handler_level True
InitListener ==
  /\ queue = << >>
  /\ alive_event = FALSE
  /\ terminate_event = FALSE
  /\ is_async_flag = TRUE
  /\ thread = 0
  /\ respect_handler_level \in BOOLEAN
  /\ has_task_done = respect_handler_level
  /\ task_done_calls = 0
  /\ consumers = [c \in ConsumerIds |-> NoConsumer]
  /\ joiner = NoJoiner
  /\ pc = [t \in Threads |-> "idle"]
  /\ args = [t \in Threads |-> NoArgs]
  /\ returned = NoReturn
  /\ calls = 0
  /\ delivered = [h \in HandlerIds |-> << >>]
  /\ dispatched = << >>
  /\ enqueued = << >>

\* a logging level given as a name (str) or as a number
Str(name) == [str |-> TRUE, name |-> name, num |-> 0]
Num(n)    == [str |-> FALSE, name |-> "", num |-> n]
\* the level argument left at its default None
NoLevel   == [str |-> FALSE, name |-> "None", num |-> 0]

\* no call was made on the logger in the last step
NoCall == [op |-> "none", level |-> Num(0), append |-> "None",
           raised |-> "none", enabled |-> FALSE, number |-> 0,
           delegated |-> 0, emitted |-> << >>]

\* AdvancedLogger.__init__ (lines 88-98) on a logger that has no level set
InitLogger ==
  /\ logger_level = 0
  /\ logger_disabled = FALSE
  /\ quick_check = FALSE
  /\ allow_append = FALSE
  /\ append_message = << >>
  /\ logcall = NoCall

(* ------------------------ the hierarchy of loggers --------------------- *)
MaxDepth  == 2
MaxSetups == 3

\* the last pieces of the dotted names in use
Stems == {"a", "root"}
\* a logger is known by the pieces of its dotted name; the root has none
LoggerNames == UNION {[1..n -> Stems] : n \in 0..MaxDepth}
root == << >>
Filters == {"f1"}
LoggerTypes == {"AdvancedLogger", "WarningsLogger", "PerformanceLogger"}

\* a logger as logging's manager makes it
NewLogger == [level |-> 0, propagate |-> TRUE, filters |-> {}, handlers |-> {}]

NoHCall == [op |-> "none", parent |-> root, name |-> "a", type |-> "none",
            logger |-> root, wrapped |-> FALSE]

InitHierarchy ==
  /\ manager = [l \in LoggerNames |->
                  IF l = root THEN [NewLogger EXCEPT !.level = 30]
                              ELSE NewLogger]
  /\ self_logger = root
  /\ self_type = "AdvancedLogger"
  /\ hcall = NoHCall
  /\ hier_calls = 0

(* ------------------------- handlers to be pickled ---------------------- *)
MaxLocks == 3

HandlerClasses == {"FileHandler", "QueueHandler", "logging.FileHandler",
                   "logging.StreamHandler", "logging.NullHandler"}
\* the classes with __getstate__ and __setstate__ of their own
PickableClasses == {"FileHandler", "QueueHandler"}
\* isinstance(handler, logging.FileHandler)
FileClasses == {"FileHandler", "logging.FileHandler"}
\* the classes whose instances have a stream attribute
StreamClasses == FileClasses \cup {"logging.StreamHandler"}

Formatters == {"None", "PreciseFormatter"}
Modes == {"a", "w"}

\* the keys of the __dict__ of a handler of class cls
KeysOf(cls) ==
  {"lock", "level", "formatter"}
    \cup (IF cls \in StreamClasses THEN {"stream"} ELSE {})
    \cup (IF cls \in FileClasses THEN {"baseFilename", "mode"} ELSE {})
    \cup (IF cls = "QueueHandler" THEN {"queue"} ELSE {})

\* cls(...): the handler as its constructor leaves it.  A lock is a number
\* (0 is None); a stream is "None", an open "file" or "stderr"
NewHandler(cls, lock, level, formatter, mode, delay) ==
  [cls |-> cls,
   dict |-> [k \in KeysOf(cls) |->
               CASE k = "lock" -> lock
                 [] k = "level" -> level
                 [] k = "formatter" -> formatter
                 [] k = "stream" -> IF cls \notin FileClasses THEN "stderr"
                                    ELSE IF delay THEN "None" ELSE "file"
                 [] k = "baseFilename" -> "listener.log"
                 [] k = "mode" -> mode
                 [] k = "queue" -> "q"]]

NoSnap == [taken |-> FALSE, dict |-> [k \in {} |-> 0]]
NoHandler == [cls |-> "none", dict |-> [k \in {} |-> 0]]
NoHEvent == [op |-> "none", closed |-> FALSE, opened |-> << >>,
             warnings |-> 0, same |-> FALSE, before |-> NoHandler]

InitPickle ==
  /\ hobj = NewHandler("FileHandler", 1, 0, "None", "a", TRUE)
  /\ hsnap = NoSnap
  /\ hnew = NoHandler
  /\ hevent = NoHEvent
  /\ locks_made = 1

(* ------------------------- the warnings bridge ------------------------- *)
\* a showwarning function: none, the one of the warnings module, one the
\* caller wrote, or a closure made by default_showwarning, which holds a
\* warning handler and the saved function
NoFn     == [kind |-> "None", handler |-> "None", saved |-> "None"]
Original == [kind |-> "original", handler |-> "None", saved |-> "None"]
Custom   == [kind |-> "custom", handler |-> "None", saved |-> "None"]
Replacement(handler, saved) ==
  [kind |-> "replacement", handler |-> handler, saved |-> saved.kind]

\* warning handlers: none, the one default_warning_handler() makes for the
\* logger "py.warnings", one the caller wrote, one made by
\* create_warning_handler() of a WarningsLogger instance
WarningHandlers == {"None", "py.warnings", "custom", "instance"}

NoWEvent == [op |-> "none", capture |-> FALSE, init |-> FALSE,
             handler_arg |-> "None", showwarning_arg |-> NoFn,
             raised |-> "none", file |-> FALSE, routed |-> "none",
             was_capturing |-> FALSE]

InitWarnings ==
  /\ showwarning = Original
  /\ saved_showwarning = NoFn
  /\ capturing = FALSE
  /\ current_showwarning = NoFn
  /\ warning_handler = "None"
  /\ wevent = NoWEvent

(* ------------------------- objects with loggers ------------------------ *)
MaxObjects == 3

\* the names loggers are stored under, and the loggers themselves
LoggerKeys == {"a", "b"}
LoggerObjs == {"L1", "L2"}
Absent == "absent"

\* a dict of loggers: for every key its logger, or that the key is absent
LoggerDicts == [LoggerKeys -> LoggerObjs \cup {Absent}]
EmptyDict == [k \in LoggerKeys |-> Absent]

\* the argument of update_loggers: none (the empty sequence), or one dict
UpdateArgs == {<< >>}
              \cup {<< [EmptyDict EXCEPT !["a"] = "L1"] >>,
                    << [a |-> "L2", b |-> "L2"] >>}

NoOEvent == [op |-> "none", obj |-> 0, source |-> 0, arg |-> << >>]

InitObjects ==
  /\ class_loggers = EmptyDict
  /\ objects = << >>
  /\ dict_heap = << >>
  /\ oevent = NoOEvent

(* ------------------------------ timed pairs ---------------------------- *)
MaxTicks == 4

PairTypes == {"t", "u"}
\* the name argument: none (the empty sequence), or a name the caller gives
PairNames == {<< >>, << 1 >>}

NoPEvent == [op |-> "none", type |-> "none", name |-> << >>, key |-> << >>,
             raised |-> "none", value |-> << >>]

\* self.pairs = {} (line 646): no type has a dict yet; a type's dict is the
\* sequence of its items in insertion order
InitPairs ==
  /\ pairs = [type \in PairTypes |-> << >>]
  /\ clock = 0
  /\ pair_hist = [only_unnamed |-> TRUE,
                  begins |-> [type \in PairTypes |-> 0],
                  opened |-> [type \in PairTypes |-> << >>],
                  alternating |-> [type \in PairTypes |-> TRUE]]
  /\ pevent = NoPEvent

(* --------------------------- a pickled wrapper ------------------------- *)
MaxWrapLocks == 4
MaxHandlers == 2

\* the handlers given to the logger: one with and one without __getstate__
WrapHandlerClasses == {"FileHandler", "logging.StreamHandler"}

\* the keys of the __dict__ of an AdvancedLogger, lines 88-99
WrapperKeys == {"_logger", "quick_check", "levels", "module_of_class",
                "module_of_object", "allow_append", "append_message"}

NoGEvent == [op |-> "none", raised |-> "none", reached |-> << >>,
             count |-> 0]

\* logging.getLogger(name), line 145: a logger with an empty handlers list
InitWrapper ==
  /\ wlogger = [has_handlers |-> TRUE, handlers |-> << >>]
  /\ wjar = << >>
  /\ wrestored = << >>
  /\ wlocks = 0
  /\ gevent = NoGEvent

InitExt == /\ InitHierarchy /\ InitPickle /\ InitWarnings /\ InitObjects
           /\ InitPairs /\ InitWrapper

Init == InitListener /\ concurrent = FALSE /\ InitLogger /\ InitExt

InitRace == InitListener /\ concurrent = TRUE /\ InitLogger /\ InitExt

(* ----------------------------- producers ------------------------------- *)
\* a QueueHandler (or any producer) puts a record on the shared queue
Enqueue ==
  /\ Len(Records(enqueued)) < MaxRecords
  /\ LET i == Len(Records(enqueued)) + 1
         r == LogRecord(i, LevelOf(i)) IN
       /\ queue' = Append(queue, r)
       /\ enqueued' = Append(enqueued, r)
  /\ Quiet
  /\ UNCHANGED << attrVars, taskVars, logVars, task_done_calls, configVars >>

(* --------------------------- LogListener.start ------------------------- *)
\* as StartCheck, but without the is_alive() check
StartCheckNoTest(t) ==
  /\ Begin(t)
  /\ ~RunDirectly
  /\ Cardinality(Created) + Cardinality(Starting) < MaxConsumers
  /\ Goto(t, "start_set")
  /\ UNCHANGED << listenerVars, configVars >>

\* start(), line 380-381: the is_alive() check
StartCheck(t) ==
  /\ Begin(t)
  /\ ~RunDirectly
  /\ Cardinality(Created) + Cardinality(Starting) < MaxConsumers
  /\ IF is_alive
       THEN Return(t, "start", "RuntimeError: already running", 0)
       ELSE Goto(t, "start_set")
  /\ UNCHANGED << listenerVars, configVars >>

\* start(), line 383: self.alive_event.set()
StartSet(t) ==
  /\ At(t, "start_set")
  /\ alive_event' = TRUE
  /\ Goto(t, "start_mode")
  /\ UNCHANGED << queueVars, terminate_event, is_async_flag, thread, taskVars,
                  logVars, task_done_calls, configVars >>

\* a consumption routine that has not run yet
NewConsumer(mode, via, owner) ==
  [pc |-> IF via = "task" THEN "new" ELSE "loop", mode |-> mode, via |-> via,
   owner |-> owner, record |-> None, exit |-> "none"]

\* start(), lines 385-388: the worker thread of QueueListener.start(), or
\* asyncio.run(self._monitor_async()) on the calling thread; asyncio.run
\* raises RuntimeError when the calling thread already runs an event loop
StartRun(t) ==
  /\ At(t, "start_mode")
  /\ IF ~is_async
       THEN /\ consumers' = [consumers EXCEPT ![NewId] =
                               NewConsumer("worker", "start", "none")]
            /\ thread' = NewId
            /\ Return(t, "start", "None", 0)
       ELSE IF HasRunningLoop(t)
         THEN /\ Return(t, "start", "RuntimeError: asyncio", 0)
              /\ UNCHANGED << consumers, thread >>
         ELSE /\ consumers' = [consumers EXCEPT ![NewId] =
                                 NewConsumer("coop", "start", t)]
              /\ pc' = [pc EXCEPT ![t] = "start_run"]
              /\ args' = [args EXCEPT ![t].mine = NewId]
              /\ returned' = NoReturn
              /\ UNCHANGED thread
  /\ UNCHANGED << queueVars, alive_event, terminate_event, is_async_flag,
                  joiner, logVars, task_done_calls, configVars >>

\* start(), line 388: asyncio.run returns when _monitor_async has returned
StartReturn(t) ==
  /\ Waiting(t, "start_run")
  /\ consumers[args[t].mine].pc = "done"
  /\ Return(t, "start", "None", 0)
  /\ UNCHANGED << listenerVars, configVars >>

(* ---------------------- LogListener.start_async_task ------------------- *)
\* start_async_task(), lines 392-393: the is_alive() check
TaskCheck(t) ==
  /\ Begin(t)
  /\ ~RunDirectly
  /\ Cardinality(Created) + Cardinality(Starting) < MaxConsumers
  /\ IF is_alive
       THEN Return(t, "start_async_task", "RuntimeError: already running", 0)
       ELSE Goto(t, "task_mode")
  /\ UNCHANGED << listenerVars, configVars >>

\* start_async_task(), line 395: self._is_async = True
TaskMode(t) ==
  /\ At(t, "task_mode")
  /\ is_async_flag' = TRUE
  /\ Goto(t, "task_set")
  /\ UNCHANGED << queueVars, alive_event, terminate_event, thread, taskVars,
                  logVars, task_done_calls, configVars >>

\* start_async_task(), line 396: self.alive_event.set()
TaskSet(t) ==
  /\ At(t, "task_set")
  /\ alive_event' = TRUE
  /\ Goto(t, "task_create")
  /\ UNCHANGED << queueVars, terminate_event, is_async_flag, thread, taskVars,
                  logVars, task_done_calls, configVars >>

\* start_async_task(), line 398: asyncio.create_task(self._monitor_async());
\* create_task raises RuntimeError when the thread runs no event loop
TaskCreate(t) ==
  /\ At(t, "task_create")
  /\ IF HasRunningLoop(t)
       THEN /\ consumers' = [consumers EXCEPT ![NewId] =
                               NewConsumer("coop", "task", t)]
            /\ Return(t, "start_async_task", "task", 0)
       ELSE /\ Return(t, "start_async_task", "RuntimeError: asyncio", 0)
            /\ UNCHANGED consumers
  /\ UNCHANGED << queueVars, attrVars, joiner, logVars, task_done_calls,
                  configVars >>

(* ------------------- tests: the routine run directly ------------------- *)
\* TestLogListener.listen: asyncio.run(listener._monitor_async()) on a
\* listener that was constructed and never started; a listener used this way
\* is not started as well while the routine runs
RunMonitorAsync(t) ==
  /\ Begin(t)
  /\ ~HasRunningLoop(t)
  /\ Created = {} /\ Starting = {} /\ ~alive_event
  /\ consumers' = [consumers EXCEPT ![NewId] =
                     NewConsumer("coop", "direct", t)]
  /\ pc' = [pc EXCEPT ![t] = "start_run"]
  /\ args' = [args EXCEPT ![t].mine = NewId]
  /\ returned' = NoReturn
  /\ UNCHANGED << queueVars, attrVars, joiner, logVars, task_done_calls,
                  configVars >>

(* ------------------- _monitor and _monitor_async ----------------------- *)
\* line 285 / 305: while not self.terminate_event.is_set()
MonitorLoop(c) ==
  /\ consumers[c].pc \in {"new", "loop"}
  /\ Scheduled(c)
  /\ consumers' = [consumers EXCEPT ![c] =
       IF terminate_event
         THEN [@ EXCEPT !.pc = "clear", !.exit = "terminate"]
         ELSE [@ EXCEPT !.pc = "dequeue"]]
  /\ Quiet
  /\ UNCHANGED << queueVars, attrVars, joiner, logVars, task_done_calls,
                  configVars >>

\* as TaskDone, but the item is not acknowledged
TaskDoneNever ==
  UNCHANGED task_done_calls

\* q.task_done(), when the queue has it
TaskDone ==
  task_done_calls' = IF has_task_done THEN task_done_calls + 1
                                      ELSE task_done_calls

\* as Take, but the item is taken from the tail of the queue
TakeLast(c) ==
  /\ queue' = SubSeq(queue, 1, Len(queue) - 1)
  /\ IF queue[Len(queue)] = None
       THEN /\ TaskDone
            /\ consumers' = [consumers EXCEPT ![c].pc = "clear",
                                               ![c].exit = "sentinel"]
       ELSE /\ consumers' = [consumers EXCEPT ![c].pc = "got",
                                               ![c].record = queue[Len(queue)]]
            /\ UNCHANGED task_done_calls

\* lines 287-291 / 307-311: the item is taken off the queue; the sentinel is
\* acknowledged and ends the loop, a record is kept for self.handle
Take(c) ==
  /\ queue' = Tail(queue)
  /\ IF Head(queue) = None
       THEN /\ TaskDone
            /\ consumers' = [consumers EXCEPT ![c].pc = "clear",
                                               ![c].exit = "sentinel"]
       ELSE /\ consumers' = [consumers EXCEPT ![c].pc = "got",
                                               ![c].record = Head(queue)]
            /\ UNCHANGED task_done_calls

\* the dequeue of one iteration.  _monitor: self.dequeue(True), a get that
\* blocks while the queue is empty (line 287).  _monitor_async:
\* dequeue_async() with timeout None (lines 266-272), which goes to
\* asyncio.sleep when the queue is empty and else gets the item
Dequeue(c) ==
  /\ consumers[c].pc = "dequeue"
  /\ Scheduled(c)
  /\ IF queue = << >>
       THEN /\ consumers[c].mode = "coop"
            /\ consumers' = [consumers EXCEPT ![c].pc = "sleep"]
            /\ UNCHANGED << queue, task_done_calls >>
       ELSE Take(c)
  /\ Quiet
  /\ UNCHANGED << enqueued, attrVars, joiner, logVars, configVars >>

\* dequeue_async(), lines 266-272: the event loop resumes the task after
\* asyncio.sleep; with the queue still empty it sleeps again
Wake(c) ==
  /\ consumers[c].pc = "sleep"
  /\ Scheduled(c)
  /\ queue # << >>
  /\ Take(c)
  /\ Quiet
  /\ UNCHANGED << enqueued, attrVars, joiner, logVars, configVars >>

\* as Receivers, but the thresholds of the handlers are never looked at
ReceiversAll(record) ==
  HandlerIds

\* QueueListener.handle: every handler, or with respect_handler_level the
\* handlers whose level is at most the record's
Receivers(record) ==
  {h \in HandlerIds :
     ~respect_handler_level \/ record.levelno >= handlers[h].level}

\* lines 292-294 / 312-314: self.handle(record), then q.task_done()
Handle(c) ==
  /\ consumers[c].pc = "got"
  /\ Scheduled(c)
  /\ delivered' = [h \in HandlerIds |->
       IF h \in Receivers(consumers[c].record)
         THEN Append(delivered[h], consumers[c].record.id)
         ELSE delivered[h]]
  /\ dispatched' = Append(dispatched, consumers[c].record.id)
  /\ TaskDone
  /\ consumers' = [consumers EXCEPT ![c].pc = "loop", ![c].record = None]
  /\ Quiet
  /\ UNCHANGED << queueVars, attrVars, joiner, configVars >>

\* a routine that has returned
DoneConsumer == [NoConsumer EXCEPT !.pc = "done"]

\* line 298 / 318: self.alive_event.clear(), and the routine returns
Clear(c) ==
  /\ consumers[c].pc = "clear"
  /\ Scheduled(c)
  /\ alive_event' = FALSE
  /\ consumers' = [consumers EXCEPT ![c] = DoneConsumer]
  /\ Quiet
  /\ UNCHANGED << queueVars, terminate_event, is_async_flag, thread, joiner,
                  logVars, task_done_calls, configVars >>

(* ------------------------- stop and terminate -------------------------- *)
\* as enqueue_sentinel, but two sentinels are put
enqueue_sentinel_twice ==
  /\ queue' = Append(Append(queue, None), None)
  /\ enqueued' = Append(Append(enqueued, None), None)

\* QueueListener.enqueue_sentinel: self.queue.put_nowait(self._sentinel)
enqueue_sentinel ==
  /\ queue' = Append(queue, None)
  /\ enqueued' = Append(enqueued, None)

\* one join_async task at a time is followed
JoinerFree(t, a) ==
  (a.join /\ a.asyn /\ HasRunningLoop(t)) => joiner.pc = "none"

\* the arguments of stop() and terminate(); without join the others are unused
JoinArgs == {a \in [join : BOOLEAN, asyn : BOOLEAN, timeout : BOOLEAN] :
               ~a.join => (~a.asyn /\ ~a.timeout)}

\* the call goes on to self.join(asyn, timeout, interval), or returns
ThenJoin(t, op, a) ==
  IF a.join
    THEN /\ pc' = [pc EXCEPT ![t] = "join"]
         /\ args' = [args EXCEPT ![t] = [op |-> op, join |-> TRUE,
                       asyn |-> a.asyn, timeout |-> a.timeout,
                       target |-> 0, mine |-> 0]]
         /\ returned' = NoReturn
    ELSE Return(t, op, "None", 0)

\* stop(), lines 412-414
Stop(t) ==
  /\ Begin(t)
  /\ Len(Sentinels(enqueued)) < MaxSentinels
  /\ \E a \in JoinArgs :
       /\ JoinerFree(t, a)
       /\ ThenJoin(t, "stop", a)
  /\ enqueue_sentinel
  /\ UNCHANGED << attrVars, taskVars, logVars, task_done_calls, configVars >>

\* as Terminate, but the call clears alive_event itself
TerminateClears(t) ==
  /\ Begin(t)
  /\ \E a \in JoinArgs :
       /\ JoinerFree(t, a)
       /\ ThenJoin(t, "terminate", a)
  /\ terminate_event' = TRUE
  /\ alive_event' = FALSE
  /\ UNCHANGED << queueVars, is_async_flag, thread, taskVars,
                  logVars, task_done_calls, configVars >>

\* terminate(), lines 428-430
Terminate(t) ==
  /\ Begin(t)
  /\ \E a \in JoinArgs :
       /\ JoinerFree(t, a)
       /\ ThenJoin(t, "terminate", a)
  /\ terminate_event' = TRUE
  /\ UNCHANGED << queueVars, alive_event, is_async_flag, thread, taskVars,
                  logVars, task_done_calls, configVars >>

\* what the call returns once join() has returned v: stop() drops the value
\* of self.join(...) (line 414), terminate() returns it (line 430)
Returned(t, v) == IF args[t].op = "terminate" THEN v ELSE "None"

\* join(), lines 371-375, with join_async_task (line 360) and the first
\* statement of join_normal (line 327, and line 334 self._thread.join)
Join(t) ==
  /\ At(t, "join")
  /\ IF args[t].asyn
       THEN IF HasRunningLoop(t)
              THEN /\ joiner' = [pc |-> "new", owner |-> t,
                                 timeout |-> args[t].timeout, target |-> 0]
                   /\ Return(t, args[t].op, Returned(t, "task"), 0)
              ELSE /\ Return(t, args[t].op, "RuntimeError: asyncio", 0)
                   /\ UNCHANGED joiner
       ELSE /\ UNCHANGED joiner
            /\ IF is_async
                 THEN Goto(t, "join_spin")
                 ELSE IF thread = 0
                   THEN Return(t, args[t].op, "AttributeError", 0)
                   ELSE /\ pc' = [pc EXCEPT ![t] = "join_thread"]
                        /\ args' = [args EXCEPT ![t].target = thread]
                        /\ returned' = NoReturn
  /\ UNCHANGED << queueVars, attrVars, consumers, logVars, task_done_calls,
                  configVars >>

\* join_normal(), lines 329-334, returns: the busy wait on alive_event ends
\* when the event is clear, or with a TimeoutWarning once the timeout has
\* passed; self._thread.join(timeout) returns when the thread has ended or
\* the timeout has passed
JoinNormal(t) ==
  /\ \/ /\ Waiting(t, "join_spin")
        /\ \/ /\ ~alive_event
              /\ Return(t, args[t].op, "None", 0)
           \/ /\ alive_event /\ args[t].timeout
              /\ Return(t, args[t].op, "None", 1)
     \/ /\ Waiting(t, "join_thread")
        /\ consumers[args[t].target].pc = "done" \/ args[t].timeout
        /\ Return(t, args[t].op, "None", 0)
  /\ UNCHANGED << listenerVars, configVars >>

(* ------------------------------ join_async ----------------------------- *)
\* the event loop of the joiner's thread can run the joiner
JoinerScheduled ==
  /\ joiner.pc # "none"
  /\ pc[joiner.owner] = "idle"
  /\ \A c \in TasksOf(joiner.owner) : consumers[c].pc \in YieldPcs

\* the join_async task returns (or raises) v after w warnings
JoinerReturn(v, w) ==
  /\ joiner' = NoJoiner
  /\ returned' = [op |-> "join_async", value |-> v, warnings |-> w,
                  wait |-> IF joiner.pc = "join_thread" THEN "thread"
                           ELSE "sleep",
                  timeout |-> joiner.timeout, state |-> NoState,
                  item |-> None]
  /\ UNCHANGED << pc, args, calls >>

\* join_async(), lines 343-346 and 351: up to the first await
JoinAsyncRun ==
  /\ joiner.pc = "new"
  /\ JoinerScheduled
  /\ IF is_async
       THEN IF alive_event
              THEN joiner' = [joiner EXCEPT !.pc = "sleep"] /\ Quiet
              ELSE JoinerReturn("None", 0)
       ELSE IF thread = 0
              THEN JoinerReturn("AttributeError", 0)
              ELSE /\ joiner' = [joiner EXCEPT !.pc = "join_thread",
                                               !.target = thread]
                   /\ Quiet
  /\ UNCHANGED << queueVars, attrVars, consumers, logVars, task_done_calls,
                  configVars >>

\* join_async(), lines 345-351, returns: after the sleep the timeout is
\* tested, then alive_event again; self._thread.join(timeout) returns when
\* the thread has ended or the timeout has passed
JoinAsyncWake ==
  /\ JoinerScheduled
  /\ \/ /\ joiner.pc = "sleep"
        /\ \/ joiner.timeout /\ JoinerReturn("None", 1)
           \/ ~alive_event /\ JoinerReturn("None", 0)
     \/ /\ joiner.pc = "join_thread"
        /\ consumers[joiner.target].pc = "done" \/ joiner.timeout
        /\ JoinerReturn("None", 0)
  /\ UNCHANGED << queueVars, attrVars, consumers, logVars, task_done_calls,
                  configVars >>

(* --------------------- is_async setter and pickling -------------------- *)
\* the is_async setter, lines 213-215
SetIsAsync(t) ==
  /\ Begin(t)
  /\ \E value \in BOOLEAN : is_async_flag' = value
  /\ Return(t, "is_async", IF is_alive THEN "ValueError" ELSE "None", 0)
  /\ UNCHANGED << queueVars, alive_event, terminate_event, thread, taskVars,
                  logVars, task_done_calls, configVars >>

\* the attributes of a LogListener after __init__ (self.__dict__)
ListenerDict == {"queue", "handlers", "_thread", "respect_handler_level",
                 "async_loop", "_is_async", "alive_event", "terminate_event"}

\* pickle_safe_handler, lines 45-54
pickle_safe_handler(handler) ==
  IF ~handler.hooks
    THEN [handler EXCEPT !.lock = FALSE, !.stream = FALSE]
    ELSE handler

\* pickle_safe_handlers, lines 66-69
pickle_safe_handlers(hs) == [h \in DOMAIN hs |-> pickle_safe_handler(hs[h])]

\* as GetState, but without the is_alive() check
GetStateAlways(t) ==
  /\ Begin(t)
  /\ pc' = pc /\ args' = args
  /\ returned' =
       [op |-> "__getstate__", value |-> "dict", warnings |-> 0,
        wait |-> "none", timeout |-> FALSE,
        state |-> [keys |-> (ListenerDict \cup {"safe_handlers"})
                              \ {"async_loop", "handlers"},
                   safe_handlers |-> pickle_safe_handlers(handlers)],
        item |-> None]
  /\ UNCHANGED << listenerVars, configVars >>

\* LogListener.__getstate__, lines 224-229
GetState(t) ==
  /\ Begin(t)
  /\ pc' = pc /\ args' = args
  /\ returned' =
       IF is_alive
         THEN [NoReturn EXCEPT !.op = "__getstate__",
                               !.value = "PickleError"]
         ELSE [op |-> "__getstate__", value |-> "dict", warnings |-> 0,
               wait |-> "none", timeout |-> FALSE,
               state |-> [keys |-> (ListenerDict \cup {"safe_handlers"})
                                     \ {"async_loop", "handlers"},
                          safe_handlers |-> pickle_safe_handlers(handlers)],
               item |-> None]
  /\ UNCHANGED << listenerVars, configVars >>

(* ------------------- dequeue_async called directly --------------------- *)
\* the result of a call of dequeue_async: the item it got, or None
DequeueResult(item, timeout, w) ==
  [NoReturn EXCEPT !.op = "dequeue_async",
                   !.value = IF w = 0 THEN "item" ELSE "None",
                   !.item = item, !.warnings = w, !.timeout = timeout]

\* dequeue_async(timeout, interval), lines 262-272, up to the first await,
\* run by a thread of its own (asyncio.run); timeout is None or a time that
\* may pass during any sleep.  With an item in the queue the while loop is
\* not entered and self.queue.get() returns the item
DequeueAsyncCall(t) ==
  /\ Begin(t)
  /\ ~HasRunningLoop(t)
  /\ \E timeout \in BOOLEAN :
       IF queue = << >>
         THEN /\ pc' = [pc EXCEPT ![t] = "dq_sleep"]
              /\ args' = [args EXCEPT ![t] =
                            [NoArgs EXCEPT !.op = "dequeue_async",
                                           !.timeout = timeout]]
              /\ returned' = NoReturn
              /\ UNCHANGED queue
         ELSE /\ queue' = Tail(queue)
              /\ returned' = DequeueResult(Head(queue), timeout, 0)
              /\ UNCHANGED << pc, args >>
  /\ UNCHANGED << enqueued, attrVars, taskVars, logVars, task_done_calls,
                  configVars >>

\* as DequeueAsyncWake, but on expiry queue.Empty is raised
DequeueAsyncWakeRaises(t) ==
  /\ Waiting(t, "dq_sleep")
  /\ pc' = [pc EXCEPT ![t] = "idle"]
  /\ args' = [args EXCEPT ![t] = NoArgs]
  /\ \/ /\ args[t].timeout
        /\ returned' = [DequeueResult(None, TRUE, 0) EXCEPT !.value = "Empty"]
        /\ UNCHANGED queue
     \/ /\ queue # << >>
        /\ queue' = Tail(queue)
        /\ returned' = DequeueResult(Head(queue), args[t].timeout, 0)
  /\ UNCHANGED << enqueued, attrVars, taskVars, logVars, task_done_calls,
                  configVars >>

\* dequeue_async, lines 266-272, after a sleep: once the timeout has passed a
\* TimeoutWarning is issued and None returned (lines 268-270); else the queue
\* is tested again and, when it has an item, self.queue.get() returns it
DequeueAsyncWake(t) ==
  /\ Waiting(t, "dq_sleep")
  /\ pc' = [pc EXCEPT ![t] = "idle"]
  /\ args' = [args EXCEPT ![t] = NoArgs]
  /\ \/ /\ args[t].timeout
        /\ returned' = DequeueResult(None, TRUE, 1)
        /\ UNCHANGED queue
     \/ /\ queue # << >>
        /\ queue' = Tail(queue)
        /\ returned' = DequeueResult(Head(queue), args[t].timeout, 0)
  /\ UNCHANGED << enqueued, attrVars, taskVars, logVars, task_done_calls,
                  configVars >>

(* ------------------------------- Next ---------------------------------- *)
Next ==
  \/ Enqueue
  \/ \E t \in Threads : StartCheck(t)
  \/ \E t \in Threads : StartSet(t)
  \/ \E t \in Threads : StartRun(t)
  \/ \E t \in Threads : StartReturn(t)
  \/ \E t \in Threads : TaskCheck(t)
  \/ \E t \in Threads : TaskMode(t)
  \/ \E t \in Threads : TaskSet(t)
  \/ \E t \in Threads : TaskCreate(t)
  \/ \E t \in Threads : RunMonitorAsync(t)
  \/ \E c \in ConsumerIds : MonitorLoop(c)
  \/ \E c \in ConsumerIds : Dequeue(c)
  \/ \E c \in ConsumerIds : Wake(c)
  \/ \E c \in ConsumerIds : Handle(c)
  \/ \E c \in ConsumerIds : Clear(c)
  \/ \E t \in Threads : Stop(t)
  \/ \E t \in Threads : Terminate(t)
  \/ \E t \in Threads : Join(t)
  \/ \E t \in Threads : JoinNormal(t)
  \/ JoinAsyncRun
  \/ JoinAsyncWake
  \/ \E t \in Threads : SetIsAsync(t)
  \/ \E t \in Threads : GetState(t)

Spec == Init /\ [][Next]_vars

SpecRace == InitRace /\ [][Next]_vars

(* ============================ AdvancedLogger =========================== *)
\* logging.DEBUG, logging.WARNING, logging.CRITICAL and logging.NOTSET
DEBUG    == 10
WARNING  == 30
CRITICAL == 50
NOTSET   == 0

\* AdvancedLogger.default_levels, lines 64-68; self.levels is a copy of it
default_levels ==
  [n \in {"DEBUG", "INFO", "WARNING", "ERROR", "CRITICAL"} |->
     CASE n = "DEBUG"    -> DEBUG
       [] n = "INFO"     -> INFO
       [] n = "WARNING"  -> WARNING
       [] n = "ERROR"    -> ERROR
       [] n = "CRITICAL" -> CRITICAL]
levels == default_levels
LevelNames == DOMAIN levels

\* the levels a caller passes: the names of the mapping, a name that is not
\* in it, and numbers between and on the named severities
LevelArgs ==
  {Str(n) : n \in LevelNames \cup {"EXCEPTION"}} \cup {Num(n) : n \in {5, WARNING}}

\* the thresholds a logger is set to: NOTSET, each named severity, and one
\* above each
Thresholds ==
  {NOTSET} \cup {levels[n] : n \in LevelNames}
           \cup {levels[n] + 1 : n \in LevelNames}

\* the level of the root logger, which a logger with no level inherits
RootLevel == WARNING

\* the append argument of the logging methods: None, True or False
AppendArgs == {"None", "True", "False"}

\* the text pieces of the arguments of the calls
Msg      == << "msg" >>
ClassArg == "class"
FuncArg  == "func"
NameArg  == "name"

\* as get_level, but a name that is not in the mapping resolves to NOTSET
get_level_lenient(level) ==
  IF level.str
    THEN IF level.name \in DOMAIN levels
           THEN [ok |-> TRUE, num |-> levels[level.name]]
           ELSE [ok |-> TRUE, num |-> 0]
    ELSE [ok |-> TRUE, num |-> level.num]

\* self.levels[name] for a str, the number itself otherwise (get_level,
\* lines 175-178; log, lines 290-291; trace_log, lines 398-399): ok is
\* FALSE when the lookup raises KeyError
get_level(level) ==
  IF level.str
    THEN IF level.name \in DOMAIN levels
           THEN [ok |-> TRUE, num |-> levels[level.name]]
           ELSE [ok |-> FALSE, num |-> 0]
    ELSE [ok |-> TRUE, num |-> level.num]

\* as isEnabledFor, but a level equal to the threshold is not enabled
isEnabledForAbove(level) ==
  IF logger_disabled
    THEN [ok |-> TRUE, enabled |-> FALSE]
    ELSE [ok |-> get_level(level).ok,
          enabled |-> get_level(level).ok
                        /\ get_level(level).num > logger_level]

\* AdvancedLogger.isEnabledFor, lines 157-163: ok is FALSE when
\* self.levels[level] raises KeyError, which a disabled logger never does
isEnabledFor(level) ==
  IF logger_disabled
    THEN [ok |-> TRUE, enabled |-> FALSE]
    ELSE [ok |-> get_level(level).ok,
          enabled |-> get_level(level).ok
                        /\ get_level(level).num >= logger_level]

\* logging.Logger.getEffectiveLevel and logging.Logger.isEnabledFor of the
\* wrapped logger
getEffectiveLevel == IF logger_level # NOTSET THEN logger_level ELSE RootLevel
\* as LoggerIsEnabledFor, but without the threshold
LoggerIsEnabledForAll(levelno) == ~logger_disabled

LoggerIsEnabledFor(levelno) ==
  ~logger_disabled /\ levelno >= getEffectiveLevel

\* self._logger.log(level, msg) and self._logger.debug(msg) ... of the
\* wrapped logger: the records it creates and hands to its handlers
LoggerLog(levelno, msg) ==
  IF LoggerIsEnabledFor(levelno)
    THEN << [levelno |-> levelno, msg |-> msg] >>
    ELSE << >>

\* as Appended, but only the instance flag decides
AppendedByFlag(msg, append) ==
  IF allow_append
    THEN append_message \o msg
    ELSE msg

\* lines 294-295: if append or (append is None and self.allow_append)
Appended(msg, append) ==
  IF append = "True" \/ (append = "None" /\ allow_append)
    THEN append_message \o msg
    ELSE msg

\* the outcome of a call that did not delegate, or that raised
NoOutcome(raised) == [raised |-> raised, delegated |-> 0, emitted |-> << >>]

\* as Gated, but the quick check is made whether or not it is switched on
GatedAlways(levelno, msg, append) ==
  IF isEnabledFor(Num(levelno)).enabled
    THEN [raised |-> "none", delegated |-> 1,
          emitted |-> LoggerLog(levelno, Appended(msg, append))]
    ELSE NoOutcome("none")

\* the body shared by log, debug, info, warning, error and critical (lines
\* 293-296, 307-310, ...): the quick check, the append, the delegation
Gated(levelno, msg, append) ==
  IF ~quick_check \/ isEnabledFor(Num(levelno)).enabled
    THEN [raised |-> "none", delegated |-> 1,
          emitted |-> LoggerLog(levelno, Appended(msg, append))]
    ELSE NoOutcome("none")

\* AdvancedLogger.log, lines 290-296
log(level, msg, append) ==
  IF ~get_level(level).ok
    THEN NoOutcome("KeyError")
    ELSE Gated(get_level(level).num, msg, append)

\* AdvancedLogger.debug / info / warning / error / critical, lines 298-366:
\* the method named after the level name
LevelMethod(name, msg, append) == Gated(levels[name], msg, append)

\* AdvancedLogger.exception, lines 377-380: the quick check looks up
\* self.levels["EXCEPTION"] before isEnabledFor is called; without it the
\* message goes to self._logger.exception, which logs at ERROR
exception(msg, append) ==
  IF ~quick_check
    THEN [raised |-> "none", delegated |-> 1,
          emitted |-> LoggerLog(ERROR, Appended(msg, append))]
    ELSE IF "EXCEPTION" \notin DOMAIN levels
           THEN NoOutcome("KeyError")
           ELSE Gated(levels["EXCEPTION"], msg, append)

\* as TraceMsg, but without the instance name
TraceMsgNoName(class_, name, func, msg) ==
  << class_, " -> ", func, ": " >> \o msg

\* line 402: f"{class_}({name}) -> {func}: {msg}"
TraceMsg(class_, name, func, msg) ==
  << class_, "(", name, ")", " -> ", func, ": " >> \o msg

\* AdvancedLogger.trace_log, lines 396-403; level is NoLevel or a level
trace_log(class_, func, msg, name, level, append) ==
  LET lvl == IF level = NoLevel THEN [ok |-> TRUE, num |-> logger_level]
                               ELSE get_level(level) IN
    IF ~lvl.ok
      THEN NoOutcome("KeyError")
      ELSE IF ~quick_check \/ isEnabledFor(Num(lvl.num)).enabled
             THEN log(Num(lvl.num), TraceMsg(class_, name, func, msg), append)
             ELSE NoOutcome("none")

\* logging.getLevelName
getLevelName(levelno) ==
  IF \E n \in LevelNames : levels[n] = levelno
    THEN CHOOSE n \in LevelNames : levels[n] = levelno
    ELSE "Level"

\* the line the default file handler writes for a record: the handler of
\* add_default_file_handler (lines 273-278) is thresholded at DEBUG and
\* formats '%(asctime)s - %(name)s - %(levelname)s - %(message)s'
LoggerName == "full"
FormatLine(record) ==
  << "asctime", " - ", LoggerName, " - ", getLevelName(record.levelno), " - " >>
    \o record.msg
OutputLines(emitted) ==
  LET passed == SelectSeq(emitted, LAMBDA r : r.levelno >= levels["DEBUG"]) IN
    [i \in DOMAIN passed |-> FormatLine(passed[i])]

\* the listener is not used while the logger is exercised
LoggerStep == UNCHANGED << listenerVars, callVars, respect_handler_level,
                          has_task_done, concurrent, extVars >>

\* the record of a call on the logger
Called(op, level, append, outcome) ==
  [NoCall EXCEPT !.op = op, !.level = level, !.append = append,
                 !.raised = outcome.raised, !.delegated = outcome.delegated,
                 !.emitted = outcome.emitted]

\* logger.setLevel(level) of the wrapped logger
SetLevel ==
  /\ \E l \in Thresholds : logger_level' = l
  /\ logcall' = NoCall
  /\ UNCHANGED << logger_disabled, quick_check, allow_append, append_message >>
  /\ LoggerStep

\* logger.disabled = value
SetDisabled ==
  /\ \E b \in BOOLEAN : logger_disabled' = b
  /\ logcall' = NoCall
  /\ UNCHANGED << logger_level, quick_check, allow_append, append_message >>
  /\ LoggerStep

\* logger.quick_check = value
SetQuickCheck ==
  /\ \E b \in BOOLEAN : quick_check' = b
  /\ logcall' = NoCall
  /\ UNCHANGED << logger_level, logger_disabled, allow_append, append_message >>
  /\ LoggerStep

\* logger.allow_append = value
SetAllowAppend ==
  /\ \E b \in BOOLEAN : allow_append' = b
  /\ logcall' = NoCall
  /\ UNCHANGED << logger_level, logger_disabled, quick_check, append_message >>
  /\ LoggerStep

\* append_module_info, lines 243-244
append_module_info ==
  /\ append_message' = << "Class' Module: ", "(Not Given)", " Object Module: ",
                          "(Not Given)", " " >>
  /\ allow_append' = TRUE
  /\ logcall' = NoCall
  /\ UNCHANGED << logger_level, logger_disabled, quick_check >>
  /\ LoggerStep

\* a call that reads the logger and changes none of its attributes
LoggerRead ==
  /\ UNCHANGED << logger_level, logger_disabled, quick_check, allow_append,
                  append_message >>
  /\ LoggerStep

\* a call logger.isEnabledFor(level)
IsEnabledForCall ==
  /\ \E level \in LevelArgs :
       logcall' = [NoCall EXCEPT
                     !.op = "isEnabledFor", !.level = level,
                     !.raised = IF isEnabledFor(level).ok THEN "none"
                                                          ELSE "KeyError",
                     !.enabled = isEnabledFor(level).enabled]
  /\ LoggerRead

\* a call logger.get_level(name)
GetLevelCall ==
  /\ \E level \in LevelArgs :
       logcall' = [NoCall EXCEPT
                     !.op = "get_level", !.level = level,
                     !.raised = IF get_level(level).ok THEN "none"
                                                       ELSE "KeyError",
                     !.number = get_level(level).num]
  /\ LoggerRead

\* a call logger.log(level, msg, append=append)
LogCall ==
  /\ \E level \in LevelArgs, append \in AppendArgs :
       logcall' = Called("log", level, append, log(level, Msg, append))
  /\ LoggerRead

\* a call logger.debug(msg, append=append), or info, warning, error, critical
LevelMethodCall ==
  /\ \E name \in LevelNames, append \in AppendArgs :
       logcall' = Called("method", Str(name), append,
                         LevelMethod(name, Msg, append))
  /\ LoggerRead

\* a call logger.trace_log(class_, func, msg, name=name, level=level,
\* append=append) with a level given
TraceLogCall ==
  /\ \E level \in LevelArgs, append \in AppendArgs :
       logcall' = Called("trace_log", level, append,
                         trace_log(ClassArg, FuncArg, Msg, NameArg, level,
                                   append))
  /\ LoggerRead

\* a call logger.trace_log(class_, func, msg, name=name, append=append),
\* level left None: the level is the logger's own (line 397)
TraceLogDefaultCall ==
  /\ \E append \in AppendArgs :
       logcall' = Called("trace_log_default", Num(logger_level), append,
                         trace_log(ClassArg, FuncArg, Msg, NameArg, NoLevel,
                                   append))
  /\ LoggerRead

ExceptionCall ==
  /\ \E append \in AppendArgs :
       logcall' = Called("exception", Str("EXCEPTION"), append,
                         exception(Msg, append))
  /\ LoggerRead

NextLogger ==
  \/ SetLevel
  \/ SetDisabled
  \/ SetQuickCheck
  \/ SetAllowAppend
  \/ append_module_info
  \/ IsEnabledForCall
  \/ GetLevelCall
  \/ LogCall
  \/ LevelMethodCall
  \/ TraceLogCall
  \/ TraceLogDefaultCall
  \/ ExceptionCall

\* an AdvancedLogger in use; the listener stays as constructed
InitLoggerSpec ==
  /\ InitListener
  /\ ~respect_handler_level
  /\ concurrent = FALSE
  /\ InitLogger
  /\ InitExt

SpecLogger == InitLoggerSpec /\ [][NextLogger]_vars

(* ================= AdvancedLogger: children and parents ================ *)
HierLevels == {NOTSET, INFO, ERROR}

\* Logger.name: the root logger is named "root"
LoggerNameOf(l) == IF l = root THEN << "root" >> ELSE l

\* name_stem: self._logger.name.rsplit('.', 1)[-1]
name_stem(l) == LoggerNameOf(l)[Len(LoggerNameOf(l))]

\* the logger above l in the hierarchy
ParentOf(l) == SubSeq(l, 1, Len(l) - 1)

\* Logger.getEffectiveLevel(): the first level that is set, going up from l
RECURSIVE getEffectiveLevelOf(_, _)
getEffectiveLevelOf(m, l) ==
  IF m[l].level # NOTSET THEN m[l].level
  ELSE IF l = root THEN NOTSET
  ELSE getEffectiveLevelOf(m, ParentOf(l))

\* Logger.getChild(suffix): the root's children carry no prefix
LoggerGetChild(l, suffix) ==
  IF l # root THEN LoggerNameOf(l) \o << suffix >> ELSE << suffix >>

\* type(self)(new_logger): a wrapper of the class of the called one
getChild(type, l, name) == [type |-> type, logger |-> LoggerGetChild(l, name)]

\* copy_logger_attributes: propagate, level, filters and handlers of logger
\* from are given to logger to, in this order
copy_logger_attributes(m, from, to) ==
  LET m1 == [m EXCEPT ![to].propagate = m[from].propagate]
      m2 == [m1 EXCEPT ![to].level = getEffectiveLevelOf(m1, from)]
      m3 == [m2 EXCEPT ![to].filters = @ \cup m2[from].filters]
  IN  [m3 EXCEPT ![to].handlers = @ \cup m3[from].handlers]

\* a step of this component leaves the others alone
HierStep == UNCHANGED << listenerVars, callVars, respect_handler_level,
                        has_task_done, concurrent, loggerVars, pickleVars,
                        warnVars, objVars, pairVars, wrapVars >>

\* T(obj): a wrapper of class T is made for a logger
Construct ==
  /\ \E T \in LoggerTypes, obj \in {root, << "a" >>} :
       /\ self_type' = T
       /\ self_logger' = obj
  /\ hcall' = NoHCall
  /\ UNCHANGED << manager, hier_calls >>
  /\ HierStep

\* logger.setLevel(level) on a logger that can be a parent
LoggerSetLevel ==
  /\ hier_calls < MaxSetups
  /\ \E l \in LoggerNames, v \in HierLevels :
       /\ Len(l) < MaxDepth
       /\ manager' = [manager EXCEPT ![l].level = v]
  /\ hier_calls' = hier_calls + 1
  /\ hcall' = NoHCall
  /\ UNCHANGED << self_logger, self_type >>
  /\ HierStep

\* self.propagate = b, self.addFilter(f), self.addHandler(h) on the wrapper,
\* which hands them to the logger it wraps
SetPropagate ==
  /\ hier_calls < MaxSetups
  /\ \E b \in BOOLEAN : manager' = [manager EXCEPT ![self_logger].propagate = b]
  /\ hier_calls' = hier_calls + 1
  /\ hcall' = NoHCall
  /\ UNCHANGED << self_logger, self_type >>
  /\ HierStep

addFilter ==
  /\ hier_calls < MaxSetups
  /\ \E f \in Filters :
       manager' = [manager EXCEPT ![self_logger].filters = @ \cup {f}]
  /\ hier_calls' = hier_calls + 1
  /\ hcall' = NoHCall
  /\ UNCHANGED << self_logger, self_type >>
  /\ HierStep

addHandler ==
  /\ hier_calls < MaxSetups
  /\ \E h \in HandlerIds :
       manager' = [manager EXCEPT ![self_logger].handlers = @ \cup {h}]
  /\ hier_calls' = hier_calls + 1
  /\ hcall' = NoHCall
  /\ UNCHANGED << self_logger, self_type >>
  /\ HierStep

\* self.getChild(name)
GetChildCall ==
  /\ Len(self_logger) < MaxDepth
  /\ \E name \in Stems :
       hcall' = [NoHCall EXCEPT
                   !.op = "getChild", !.parent = self_logger, !.name = name,
                   !.type = getChild(self_type, self_logger, name).type,
                   !.logger = getChild(self_type, self_logger, name).logger]
  /\ UNCHANGED << manager, self_logger, self_type, hier_calls >>
  /\ HierStep

\* self.setParent(parent), parent a logger or a wrapper of one
setParent ==
  /\ hier_calls < MaxSetups
  /\ \E p \in LoggerNames, wrapped \in BOOLEAN, T \in LoggerTypes :
       /\ Len(p) < MaxDepth
       /\ wrapped \/ T = "AdvancedLogger"
       /\ LET new_logger ==
                 IF wrapped THEN getChild(T, p, name_stem(self_logger)).logger
                            ELSE LoggerGetChild(p, name_stem(self_logger))
          IN  /\ manager' = copy_logger_attributes(manager, self_logger,
                                                   new_logger)
              /\ self_logger' = new_logger
              /\ hcall' = [NoHCall EXCEPT
                             !.op = "setParent", !.parent = p,
                             !.name = name_stem(self_logger),
                             !.type = self_type, !.logger = new_logger,
                             !.wrapped = wrapped]
  /\ hier_calls' = hier_calls + 1
  /\ UNCHANGED self_type
  /\ HierStep

NextHierarchy ==
  \/ Construct
  \/ LoggerSetLevel
  \/ SetPropagate
  \/ addFilter
  \/ addHandler
  \/ GetChildCall
  \/ setParent

SpecHierarchy == InitLoggerSpec /\ [][NextHierarchy]_vars

(* ==================== handlers: pickling and unpickling ================ *)
\* d without the key k (dict.pop)
Pop(d, k) == [x \in DOMAIN d \ {k} |-> d[x]]

\* d with key k set to v (d[k] = v)
Put(d, k, v) == [x \in DOMAIN d \cup {k} |-> IF x = k THEN v ELSE d[x]]

\* the truth value Python gives a stream field
Truthy(stream) == stream # "None"

\* hasattr(handler, "__getstate__") and hasattr(handler, "__setstate__"), on
\* the interpreters the package supports (3.6 to 3.9)
HasHooks(handler) == handler.cls \in PickableClasses

\* FileHandler.close(): the stream, if any, is closed and set to None
Closed(handler) == [handler EXCEPT !.dict = Put(@, "stream", "None")]

\* PickableHandler.__getstate__: a copy of __dict__ without the lock
PickableGetState(handler) == Pop(handler.dict, "lock")

\* FileHandler.__getstate__: the snapshot, the handler afterwards, and
\* whether close() was called
FileGetState(handler) ==
  IF Truthy(handler.dict["stream"])
    THEN [state |-> Put(PickableGetState(handler), "stream", "True"),
          handler |-> Closed(handler), closed |-> TRUE]
    ELSE [state |-> PickableGetState(handler),
          handler |-> handler, closed |-> FALSE]

\* as __getstate__, but the lock stays in the snapshot
getstate_with_lock(handler) ==
  [state |-> handler.dict, handler |-> handler, closed |-> FALSE]

\* handler.__getstate__() for a handler of a pickable class
getstate(handler) ==
  IF handler.cls \in FileClasses
    THEN FileGetState(handler)
    ELSE [state |-> PickableGetState(handler),
          handler |-> handler, closed |-> FALSE]

\* as PickableHandler.__setstate__, but without createLock()
PickableSetStateNoLock(cls, in_dict, lock) == [cls |-> cls, dict |-> in_dict]

\* PickableHandler.__setstate__ on a new object of class cls:
\* self.__dict__ = in_dict, then createLock()
PickableSetState(cls, in_dict, lock) ==
  [cls |-> cls, dict |-> Put(in_dict, "lock", lock)]

\* as FileHandler.__setstate__, but the stream is opened whatever the flag
FileSetStateAlwaysOpens(cls, in_dict, lock) ==
  [handler |-> [PickableSetState(cls, in_dict, lock) EXCEPT
                  !.dict = Put(@, "stream", "file")],
   opened |-> << in_dict["baseFilename"], in_dict["mode"] >>]

\* FileHandler.__setstate__: the stream is opened with self._open(), that is
\* on self.baseFilename with self.mode, when the flag of the snapshot is set
FileSetState(cls, in_dict, lock) ==
  LET self == PickableSetState(cls, in_dict, lock)
  IN  IF Truthy(in_dict["stream"])
        THEN [handler |-> [self EXCEPT !.dict = Put(@, "stream", "file")],
              opened |-> << self.dict["baseFilename"], self.dict["mode"] >>]
        ELSE [handler |-> self, opened |-> << >>]

\* cls.__setstate__(in_dict) on a new object, with the lock createLock gives
setstate(cls, in_dict, lock) ==
  IF cls \in FileClasses
    THEN FileSetState(cls, in_dict, lock)
    ELSE [handler |-> PickableSetState(cls, in_dict, lock), opened |-> << >>]

\* as pickle_safe_handler, but the warning is given for file handlers too
safe_copy_warns_for_files(handler) ==
  IF ~HasHooks(handler)
    THEN [handler |->
            [handler EXCEPT !.dict =
               IF "stream" \in DOMAIN handler.dict
                 THEN Put(Put(@, "lock", 0), "stream", "None")
                 ELSE Put(@, "lock", 0)],
          warnings |-> IF "stream" \in DOMAIN handler.dict THEN 1 ELSE 0,
          same |-> FALSE]
    ELSE [handler |-> handler, warnings |-> 0, same |-> TRUE]

\* pickle_safe_handler on a handler given with its __dict__: the handler it
\* returns, the warnings it emits, and whether it returns its argument
safe_copy(handler) ==
  IF ~HasHooks(handler)
    THEN [handler |->
            [handler EXCEPT !.dict =
               IF "stream" \in DOMAIN handler.dict
                 THEN Put(Put(@, "lock", 0), "stream", "None")
                 ELSE Put(@, "lock", 0)],
          warnings |-> IF /\ "stream" \in DOMAIN handler.dict
                          /\ handler.cls \notin FileClasses
                         THEN 1 ELSE 0,
          same |-> FALSE]
    ELSE [handler |-> handler, warnings |-> 0, same |-> TRUE]

\* unpickle_safe_handler: createLock() on a handler without __setstate__
unpickle_safe_handler(handler, lock) ==
  IF ~HasHooks(handler)
    THEN [handler EXCEPT !.dict = Put(@, "lock", lock)]
    ELSE handler

\* a step of this component leaves the others alone
PickleStep == UNCHANGED << listenerVars, callVars, respect_handler_level,
                          has_task_done, concurrent, loggerVars, hierVars,
                          warnVars, objVars, pairVars, wrapVars >>

\* a handler is constructed; Handler.__init__ calls createLock()
MakeHandler ==
  /\ locks_made < MaxLocks
  /\ \E cls \in HandlerClasses, level \in {NOTSET, ERROR},
        formatter \in Formatters, mode \in Modes, delay \in BOOLEAN :
       /\ cls \notin FileClasses => (mode = "a" /\ delay)
       /\ hobj' = NewHandler(cls, locks_made + 1, level, formatter, mode,
                             delay)
  /\ locks_made' = locks_made + 1
  /\ hsnap' = NoSnap
  /\ hnew' = NoHandler
  /\ hevent' = NoHEvent
  /\ PickleStep

\* handler.emit(record) of a file handler opens the stream if there is none
HandlerEmit ==
  /\ hobj.cls \in FileClasses
  /\ hobj.dict["stream"] = "None"
  /\ hobj' = [hobj EXCEPT !.dict = Put(@, "stream", "file")]
  /\ hevent' = NoHEvent
  /\ UNCHANGED << hsnap, hnew, locks_made >>
  /\ PickleStep

\* handler.close() of a file handler
HandlerClose ==
  /\ hobj.cls \in FileClasses
  /\ hobj.dict["stream"] # "None"
  /\ hobj' = Closed(hobj)
  /\ hevent' = NoHEvent
  /\ UNCHANGED << hsnap, hnew, locks_made >>
  /\ PickleStep

\* handler.__getstate__()
Capture ==
  /\ hobj.cls \in PickableClasses
  /\ hsnap' = [taken |-> TRUE, dict |-> getstate(hobj).state]
  /\ hobj' = getstate(hobj).handler
  /\ hevent' = [NoHEvent EXCEPT !.op = "__getstate__",
                                !.closed = getstate(hobj).closed,
                                !.before = hobj]
  /\ UNCHANGED << hnew, locks_made >>
  /\ PickleStep

\* new.__setstate__(snapshot) on a new object of the class of the handler
Restore ==
  /\ hsnap.taken
  /\ locks_made < MaxLocks
  /\ hnew' = setstate(hobj.cls, hsnap.dict, locks_made + 1).handler
  /\ hevent' = [NoHEvent EXCEPT
                  !.op = "__setstate__",
                  !.opened = setstate(hobj.cls, hsnap.dict,
                                      locks_made + 1).opened,
                  !.before = hobj]
  /\ locks_made' = locks_made + 1
  /\ UNCHANGED << hobj, hsnap >>
  /\ PickleStep

\* pickle_safe_handler(handler)
PickleSafe ==
  /\ hnew' = safe_copy(hobj).handler
  /\ hevent' = [NoHEvent EXCEPT !.op = "pickle_safe_handler",
                                !.warnings = safe_copy(hobj).warnings,
                                !.same = safe_copy(hobj).same,
                                !.before = hobj]
  /\ UNCHANGED << hobj, hsnap, locks_made >>
  /\ PickleStep

\* unpickle_safe_handler(handler) on what pickle_safe_handler returned
UnpickleSafe ==
  /\ hevent.op = "pickle_safe_handler"
  /\ locks_made < MaxLocks
  /\ hnew' = unpickle_safe_handler(hnew, locks_made + 1)
  /\ hevent' = [NoHEvent EXCEPT !.op = "unpickle_safe_handler",
                                !.before = hnew]
  /\ locks_made' = locks_made + 1
  /\ UNCHANGED << hobj, hsnap >>
  /\ PickleStep

NextPickle ==
  \/ MakeHandler
  \/ HandlerEmit
  \/ HandlerClose
  \/ Capture
  \/ Restore
  \/ PickleSafe
  \/ UnpickleSafe

SpecPickle == InitLoggerSpec /\ [][NextPickle]_vars

(* ================= WarningsLogger: the warnings bridge ================= *)
\* the class attributes and warnings.showwarning, as one record
Bridge ==
  [showwarning |-> showwarning, saved |-> saved_showwarning,
   capturing |-> capturing, current |-> current_showwarning,
   handler |-> warning_handler, raised |-> "none"]

\* set_warning_handler(warning_handler)
set_warning_handler(b, handler) ==
  [b EXCEPT !.handler = IF handler = "None" THEN "py.warnings" ELSE handler]

\* default_showwarning(warning_handler): the closure, made of the handler
\* given, or else of cls.warning_handler, and of the saved function
default_showwarning(b, handler) ==
  Replacement(IF handler = "None" THEN b.handler ELSE handler, b.saved)

\* set_showwarning(showwarning, warning_handler); default_showwarning raises
\* when nothing is saved yet
set_showwarning(b, fn, handler) ==
  IF fn = NoFn
    THEN LET b1 == IF handler = "None" THEN set_warning_handler(b, handler)
                                       ELSE b
         IN  IF b1.saved = NoFn
               THEN [b1 EXCEPT !.raised = "NotImplementedError"]
               ELSE [b1 EXCEPT !.current = default_showwarning(b1, handler),
                               !.showwarning = default_showwarning(b1, handler)]
    ELSE [b EXCEPT !.current = fn, !.showwarning = fn]

\* as capture_warnings, but capture=False leaves warnings.showwarning alone
capture_warnings_keeps(b, capture, init) ==
  IF capture
    THEN IF b.saved = NoFn
           THEN LET b1 == [b EXCEPT !.saved = b.showwarning]
                    b2 == IF init THEN set_showwarning(b1, NoFn, "None")
                                  ELSE b1
                IN  [b2 EXCEPT !.capturing = TRUE]
           ELSE b
    ELSE IF b.saved # NoFn
           THEN [b EXCEPT !.capturing = FALSE]
           ELSE b

\* capture_warnings(capture, init)
capture_warnings(b, capture, init) ==
  IF capture
    THEN IF b.saved = NoFn
           THEN LET b1 == [b EXCEPT !.saved = b.showwarning]
                    b2 == IF init THEN set_showwarning(b1, NoFn, "None")
                                  ELSE b1
                IN  [b2 EXCEPT !.capturing = TRUE]
           ELSE b
    ELSE IF b.saved # NoFn
           THEN [b EXCEPT !.showwarning = b.saved, !.capturing = FALSE]
           ELSE b

\* self.set_warning_logger(warning_handler, showwarning) of an instance;
\* create_showwarning raises when nothing is saved yet, and its result is
\* not used
set_warning_logger(b, handler, fn) ==
  IF fn = NoFn
    THEN LET b1 == IF handler = "None" THEN set_warning_handler(b, "instance")
                                       ELSE b
         IN  IF b1.saved = NoFn
               THEN [b1 EXCEPT !.raised = "NotImplementedError"]
               ELSE set_showwarning(b1, fn, "None")
    ELSE set_showwarning(b, fn, "None")

\* where a call fn(message, category, filename, lineno, file, line) sends the
\* warning: to the text output of the warnings module, to the caller's
\* function, or to a warning handler
Route(fn, file) ==
  CASE fn.kind = "original" -> "original"
    [] fn.kind = "custom" -> "custom_showwarning"
    [] fn.kind = "replacement" ->
         IF ~file THEN fn.handler
         ELSE IF fn.saved = "original" THEN "original"
         ELSE "custom_showwarning"
    [] OTHER -> "none"

\* the class attributes and warnings.showwarning become those of b
Becomes(b) ==
  /\ showwarning' = b.showwarning
  /\ saved_showwarning' = b.saved
  /\ capturing' = b.capturing
  /\ current_showwarning' = b.current
  /\ warning_handler' = b.handler

\* a step of this component leaves the others alone
WarnStep == UNCHANGED << listenerVars, callVars, respect_handler_level,
                        has_task_done, concurrent, loggerVars, hierVars,
                        pickleVars, objVars, pairVars, wrapVars >>

CaptureWarnings ==
  /\ \E capture \in BOOLEAN, init \in BOOLEAN :
       /\ Becomes(capture_warnings(Bridge, capture, init))
       /\ wevent' = [NoWEvent EXCEPT
                       !.op = "capture_warnings", !.capture = capture,
                       !.init = init, !.was_capturing = capturing,
                       !.raised = capture_warnings(Bridge, capture,
                                                   init).raised]
  /\ WarnStep

SetWarningHandler ==
  /\ \E handler \in {"None", "custom"} :
       /\ Becomes(set_warning_handler(Bridge, handler))
       /\ wevent' = [NoWEvent EXCEPT !.op = "set_warning_handler",
                                     !.handler_arg = handler]
  /\ WarnStep

SetShowwarning ==
  /\ \E fn \in {NoFn, Custom}, handler \in {"None", "custom"} :
       /\ Becomes(set_showwarning(Bridge, fn, handler))
       /\ wevent' = [NoWEvent EXCEPT
                       !.op = "set_showwarning", !.handler_arg = handler,
                       !.showwarning_arg = fn,
                       !.raised = set_showwarning(Bridge, fn, handler).raised]
  /\ WarnStep

SetWarningLogger ==
  /\ \E fn \in {NoFn, Custom}, handler \in {"None", "custom"} :
       /\ Becomes(set_warning_logger(Bridge, handler, fn))
       /\ wevent' = [NoWEvent EXCEPT
                       !.op = "set_warning_logger", !.handler_arg = handler,
                       !.showwarning_arg = fn, !.was_capturing = capturing,
                       !.raised = set_warning_logger(Bridge, handler,
                                                     fn).raised]
  /\ WarnStep

\* warnings.warn(...), which calls warnings.showwarning without a file, or a
\* direct call of warnings.showwarning with a file
Warn ==
  /\ \E file \in BOOLEAN :
       wevent' = [NoWEvent EXCEPT !.op = "warn", !.file = file,
                                 !.routed = Route(showwarning, file)]
  /\ UNCHANGED << showwarning, saved_showwarning, capturing,
                  current_showwarning, warning_handler >>
  /\ WarnStep

NextWarnings ==
  \/ CaptureWarnings
  \/ SetWarningHandler
  \/ SetShowwarning
  \/ SetWarningLogger
  \/ Warn

SpecWarnings == InitLoggerSpec /\ [][NextWarnings]_vars

(* ================== ObjectWithLogging: loggers per object ============== *)
\* dict.copy(): a new dict with the same items
DictCopy(d) == [k \in LoggerKeys |-> d[k]]

\* dict.update(other): the keys of other are set, the rest is kept
DictUpdate(d, other) ==
  [k \in LoggerKeys |-> IF other[k] # Absent THEN other[k] ELSE d[k]]

\* the loggers of instance o, read through its attribute
LoggersOf(o) == dict_heap[objects[o].loggers]

\* ObjectWithLogging.__init__, lines 53-55: the instance gets a new dict, a
\* copy of class_loggers, and an empty name
ObjectInit(heap) ==
  [heap |-> Append(heap, DictCopy(class_loggers)),
   new  |-> [loggers |-> Len(heap) + 1, name |-> ""]]

\* __deepcopy__, lines 66-80: new = type(self)(); the deep copies of the
\* attributes go to new_dict, which is not used again; the attributes of
\* new are then bound by new.__dict__.update(self.__dict__) to the very
\* objects self's attributes are bound to
deepcopy(self, heap) ==
  [heap |-> ObjectInit(heap).heap,
   new  |-> [loggers |-> self.loggers, name |-> self.name]]

\* update_loggers, lines 88-100: the dict self.loggers refers to is updated
\* in place, from class_loggers when no dict is given
update_loggers(self, loggers, heap) ==
  [heap EXCEPT ![self.loggers] =
     DictUpdate(@, IF loggers = << >> THEN class_loggers ELSE loggers[1])]

\* a step of this component leaves the others alone
ObjStep == UNCHANGED << listenerVars, callVars, respect_handler_level,
                       has_task_done, concurrent, loggerVars, hierVars,
                       pickleVars, warnVars, pairVars, wrapVars >>

\* a subclass is defined with loggers in its class_loggers, line 44
DefineClassLoggers ==
  /\ objects = << >>
  /\ class_loggers = EmptyDict
  /\ \E d \in LoggerDicts \ {EmptyDict} :
       /\ class_loggers' = d
       /\ oevent' = [NoOEvent EXCEPT !.op = "class", !.arg = << d >>]
  /\ UNCHANGED << objects, dict_heap >>
  /\ ObjStep

NewObject ==
  /\ Len(objects) < MaxObjects
  /\ objects' = Append(objects, ObjectInit(dict_heap).new)
  /\ dict_heap' = ObjectInit(dict_heap).heap
  /\ oevent' = [NoOEvent EXCEPT !.op = "__init__", !.obj = Len(objects) + 1]
  /\ UNCHANGED class_loggers
  /\ ObjStep

DeepCopy ==
  /\ Len(objects) < MaxObjects
  /\ \E o \in 1..Len(objects) :
       /\ objects' = Append(objects, deepcopy(objects[o], dict_heap).new)
       /\ dict_heap' = deepcopy(objects[o], dict_heap).heap
       /\ oevent' = [NoOEvent EXCEPT !.op = "__deepcopy__",
                                     !.obj = Len(objects) + 1, !.source = o]
  /\ UNCHANGED class_loggers
  /\ ObjStep

UpdateLoggers ==
  /\ \E o \in 1..Len(objects), loggers \in UpdateArgs :
       /\ dict_heap' = update_loggers(objects[o], loggers, dict_heap)
       /\ oevent' = [NoOEvent EXCEPT !.op = "update_loggers", !.obj = o,
                                     !.arg = loggers]
  /\ UNCHANGED << class_loggers, objects >>
  /\ ObjStep

NextObjects ==
  \/ DefineClassLoggers
  \/ NewObject
  \/ DeepCopy
  \/ UpdateLoggers

SpecObjects == InitLoggerSpec /\ [][NextObjects]_vars

(* ==================== PerformanceLogger: timed pairs =================== *)
\* the position of key name in the dict d, 0 when d has no such key
KeyIndex(d, name) ==
  IF \E i \in 1..Len(d) : d[i].name = name
    THEN CHOOSE i \in 1..Len(d) : d[i].name = name
    ELSE 0

\* d[name] = value: a new key comes last, a known key keeps its place
DictSet(d, name, value) ==
  IF KeyIndex(d, name) = 0
    THEN Append(d, value)
    ELSE [d EXCEPT ![KeyIndex(d, name)] = value]

PairOutcome(ps, raised, key, value, timed) ==
  [pairs |-> ps, raised |-> raised, key |-> key, value |-> value,
   timed |-> timed]

\* pair_begin, lines 669-674: an unnamed pair is named by the number of
\* pairs its type has; the pair starts with the timer's reading and no end
pair_begin(ps, type_, name, now) ==
  LET key == IF name = << >> THEN Len(ps[type_]) ELSE name[1]
  IN PairOutcome([ps EXCEPT ![type_] =
                    DictSet(@, key, [name |-> key, beginning |-> now,
                                     ending |-> << >>])],
                 "none", << key >>, << >>, TRUE)

\* pair_end, lines 676-679: without a name the first key of the type's dict
\* is taken; the timer is read before the pair is looked up
pair_end(ps, type_, name, now) ==
  IF name = << >> /\ ps[type_] = << >>
    THEN PairOutcome(ps, "KeyError", << >>, << >>, FALSE)
    ELSE LET key == IF name = << >> THEN ps[type_][1].name ELSE name[1]
             i   == KeyIndex(ps[type_], key)
         IN IF i = 0
              THEN PairOutcome(ps, "KeyError", << key >>, << >>, TRUE)
              ELSE PairOutcome([ps EXCEPT ![type_][i].ending = << now >>],
                               "none", << key >>, << >>, TRUE)

\* pair_difference, lines 681-685: ending - beginning of the named pair, or
\* of the first pair of the type; None - float raises TypeError
pair_difference(ps, type_, name) ==
  IF ps[type_] = << >>
    THEN PairOutcome(ps, "KeyError", << >>, << >>, FALSE)
    ELSE LET key == IF name = << >> THEN ps[type_][1].name ELSE name[1]
             i   == KeyIndex(ps[type_], key)
         IN IF i = 0
              THEN PairOutcome(ps, "KeyError", << key >>, << >>, FALSE)
              ELSE IF ps[type_][i].ending = << >>
                THEN PairOutcome(ps, "TypeError", << key >>, << >>, FALSE)
                ELSE PairOutcome(ps, "none", << key >>,
                                 << ps[type_][i].ending[1]
                                      - ps[type_][i].beginning >>, FALSE)

\* pair_average_difference, lines 687-691: the differences of all pairs of
\* the type, in order; statistics.stdev needs two of them. The value is the
\* sequence of differences the mean and the deviation are taken of
pair_average_difference(ps, type_) ==
  IF ps[type_] = << >>
    THEN PairOutcome(ps, "KeyError", << >>, << >>, FALSE)
    ELSE IF \E i \in 1..Len(ps[type_]) : ps[type_][i].ending = << >>
      THEN PairOutcome(ps, "TypeError", << >>, << >>, FALSE)
      ELSE IF Len(ps[type_]) < 2
        THEN PairOutcome(ps, "StatisticsError", << >>, << >>, FALSE)
        ELSE PairOutcome(ps, "none", << >>,
                         [i \in 1..Len(ps[type_]) |->
                            ps[type_][i].ending[1] - ps[type_][i].beginning],
                         FALSE)

\* a step of this component leaves the others alone
PairStep == UNCHANGED << listenerVars, callVars, respect_handler_level,
                        has_task_done, concurrent, loggerVars, hierVars,
                        pickleVars, warnVars, objVars, wrapVars >>

\* the call leaves outcome behind; the timer's next reading is clock + 1
PairDone(op, type_, name, outcome) ==
  /\ pairs' = outcome.pairs
  /\ clock' = IF outcome.timed THEN clock + 1 ELSE clock
  /\ pevent' = [op |-> op, type |-> type_, name |-> name,
                key |-> outcome.key, raised |-> outcome.raised,
                value |-> outcome.value]

PairBegin ==
  /\ clock < MaxTicks
  /\ \E type_ \in PairTypes, name \in PairNames :
       /\ PairDone("pair_begin", type_, name,
                   pair_begin(pairs, type_, name, clock + 1))
       /\ pair_hist' =
            IF name = << >>
              THEN [pair_hist EXCEPT
                      !.begins[type_] = @ + 1,
                      !.alternating[type_] =
                         @ /\ pair_hist.opened[type_] = << >>,
                      !.opened[type_] = << Len(pairs[type_]) >>]
              ELSE [pair_hist EXCEPT !.only_unnamed = FALSE,
                                     !.alternating[type_] = FALSE]
  /\ PairStep

PairEnd ==
  /\ clock < MaxTicks
  /\ \E type_ \in PairTypes, name \in PairNames :
       /\ PairDone("pair_end", type_, name,
                   pair_end(pairs, type_, name, clock + 1))
       /\ pair_hist' =
            IF name = << >>
              THEN [pair_hist EXCEPT
                      !.alternating[type_] =
                         @ /\ pair_hist.opened[type_] # << >>,
                      !.opened[type_] = << >>]
              ELSE [pair_hist EXCEPT !.only_unnamed = FALSE,
                                     !.alternating[type_] = FALSE]
  /\ PairStep

PairDifference ==
  /\ \E type_ \in PairTypes, name \in PairNames :
       PairDone("pair_difference", type_, name,
                pair_difference(pairs, type_, name))
  /\ UNCHANGED pair_hist
  /\ PairStep

PairAverageDifference ==
  /\ \E type_ \in PairTypes :
       PairDone("pair_average_difference", type_, << >>,
                pair_average_difference(pairs, type_))
  /\ UNCHANGED pair_hist
  /\ PairStep

NextPairs ==
  \/ PairBegin
  \/ PairEnd
  \/ PairDifference
  \/ PairAverageDifference

SpecPairs == InitLoggerSpec /\ [][NextPairs]_vars

(* ================= AdvancedLogger: pickling the wrapper ================ *)
\* the handler objects of a list, each known by the lock it was given
LocksOf(hs) == [i \in 1..Len(hs) |-> hs[i].dict["lock"]]

\* pickle_safe_handlers, handlers.py lines 57-69, on handlers given with
\* their __dict__
safe_copies(hs) == [i \in 1..Len(hs) |-> safe_copy(hs[i]).handler]

\* what pickle writes for a handler of the list: the class, and the state
\* __getstate__ gives or, without that method, the __dict__
Pickled(handler) ==
  [cls |-> handler.cls,
   state |-> IF HasHooks(handler) THEN getstate(handler).state
             ELSE handler.dict]

\* what pickle reads back and unpickle_safe_handler then makes of it, with
\* the lock createLock() gives
Unpickled(item, lock) ==
  unpickle_safe_handler(
    IF item.cls \in PickableClasses
      THEN setstate(item.cls, item.state, lock).handler
      ELSE [cls |-> item.cls, dict |-> item.state],
    lock)

\* AdvancedLogger.__getstate__, lines 112-121. copy.deepcopy(self.__dict__)
\* copies a logging.Logger as pickle does, by its name: out_dict["_logger"]
\* is the logger self._logger is, and the del statement of line 120 removes
\* the handlers attribute of that logger. Without the attribute line 119
\* raises AttributeError
wrapper_getstate(logger) ==
  IF ~logger.has_handlers
    THEN [raised |-> "AttributeError", out_dict |-> << >>, logger |-> logger]
    ELSE [raised |-> "none",
          out_dict |-> << [keys |-> WrapperKeys \cup {"handlers"},
                          handlers |-> safe_copies(logger.handlers)] >>,
          logger |-> [has_handlers |-> FALSE, handlers |-> << >>]]

\* pickle.dumps(wrapper): __getstate__, then the dict is written, the
\* logger by its name and the handlers by their state
dumps(logger) ==
  LET got == wrapper_getstate(logger)
  IN [raised |-> got.raised,
      logger |-> got.logger,
      jar |-> IF got.raised # "none" THEN << >>
              ELSE << [keys |-> got.out_dict[1].keys,
                       handlers |->
                         [i \in 1..Len(got.out_dict[1].handlers) |->
                            Pickled(got.out_dict[1].handlers[i])]] >>]

\* AdvancedLogger.__setstate__, lines 123-130, on what pickle.loads read:
\* the handlers entry is popped and its handlers, made usable again, become
\* the handlers of in_dict["_logger"]
wrapper_setstate(in_dict, locks) ==
  [keys |-> in_dict.keys \ {"handlers"},
   handlers |-> [i \in 1..Len(in_dict.handlers) |->
                   Unpickled(in_dict.handlers[i], locks + i)]]

\* Logger.callHandlers: the record goes to every handler of the logger; a
\* file handler without a stream opens its file to emit
Emitted(handler) ==
  IF handler.cls \in FileClasses
    THEN [handler EXCEPT !.dict = Put(@, "stream", "file")]
    ELSE handler

\* a step of this component leaves the others alone
WrapStep == UNCHANGED << listenerVars, callVars, respect_handler_level,
                        has_task_done, concurrent, loggerVars, hierVars,
                        pickleVars, warnVars, objVars, pairVars >>

\* wrapper.addHandler(cls(...)), which Logger.addHandler carries out
WrapAddHandler ==
  /\ wlocks < MaxWrapLocks
  /\ Len(wlogger.handlers) < MaxHandlers
  /\ \E cls \in WrapHandlerClasses :
       IF wlogger.has_handlers
         THEN /\ wlogger' = [wlogger EXCEPT !.handlers =
                               Append(@, NewHandler(cls, wlocks + 1, NOTSET,
                                                    "None", "a", TRUE))]
              /\ gevent' = [NoGEvent EXCEPT !.op = "addHandler",
                                            !.count = Len(wlogger.handlers)]
         ELSE /\ wlogger' = wlogger
              /\ gevent' = [NoGEvent EXCEPT !.op = "addHandler",
                                            !.raised = "AttributeError"]
  /\ wlocks' = wlocks + 1
  /\ UNCHANGED << wjar, wrestored >>
  /\ WrapStep

\* a record is logged through the wrapper at an enabled level
WrapLog ==
  /\ IF wlogger.has_handlers
       THEN /\ wlogger' = [wlogger EXCEPT !.handlers =
                             [i \in 1..Len(@) |-> Emitted(@[i])]]
            /\ gevent' = [NoGEvent EXCEPT !.op = "log",
                                          !.reached = LocksOf(wlogger.handlers),
                                          !.count = Len(wlogger.handlers)]
       ELSE /\ wlogger' = wlogger
            /\ gevent' = [NoGEvent EXCEPT !.op = "log",
                                          !.raised = "AttributeError"]
  /\ UNCHANGED << wjar, wrestored, wlocks >>
  /\ WrapStep

\* pickle.dumps(wrapper)
Dumps ==
  /\ wlogger' = dumps(wlogger).logger
  /\ wjar' = IF dumps(wlogger).raised = "none" THEN dumps(wlogger).jar
             ELSE wjar
  /\ gevent' = [NoGEvent EXCEPT !.op = "dumps",
                                !.raised = dumps(wlogger).raised,
                                !.count = Len(wlogger.handlers)]
  /\ UNCHANGED << wrestored, wlocks >>
  /\ WrapStep

\* pickle.loads of what was written, in the process of the live logger, in
\* which the logger of that name is the live logger, or in another process
Loads ==
  /\ wjar # << >>
  /\ wlocks + Len(wjar[1].handlers) <= MaxWrapLocks
  /\ \E same_process \in BOOLEAN :
       LET new == wrapper_setstate(wjar[1], wlocks)
       IN /\ wrestored' = << [keys |-> new.keys, handlers |-> new.handlers,
                               logger |-> IF same_process THEN "live"
                                          ELSE "other"] >>
          /\ wlogger' = IF same_process
                          THEN [has_handlers |-> TRUE,
                                handlers |-> new.handlers]
                          ELSE wlogger
          /\ gevent' = [NoGEvent EXCEPT !.op = "loads",
                                        !.count = Len(wjar[1].handlers)]
  /\ wlocks' = wlocks + Len(wjar[1].handlers)
  /\ UNCHANGED wjar
  /\ WrapStep

NextWrapper ==
  \/ WrapAddHandler
  \/ WrapLog
  \/ Dumps
  \/ Loads

SpecWrapper == InitLoggerSpec /\ [][NextWrapper]_vars

\* the listener with, besides its API, direct calls of dequeue_async
NextDequeue ==
  \/ Next
  \/ \E t \in Threads : DequeueAsyncCall(t)
  \/ \E t \in Threads : DequeueAsyncWake(t)

SpecDequeue == Init /\ [][NextDequeue]_vars

(* ======================= properties of the listener =================== *)
\* the items taken off the queue so far, in the order they were enqueued
Taken == SubSeq(enqueued, 1, Len(enqueued) - Len(queue))

\* the ids of the records of a sequence of items
Ids(seq) == [i \in DOMAIN Records(seq) |-> Records(seq)[i].id]

\* the records a consumer has dequeued and not yet passed to handle()
InHand == {c \in ConsumerIds : consumers[c].pc = "got"}

\* the sequence s is the sequence r, or r without its last element
AllButInHand(s, r) ==
  \/ InHand = {} /\ s = r
  \/ InHand # {} /\ Len(r) = Len(s) + 1 /\ s = SubSeq(r, 1, Len(s))

\* the ids handler h is due from a sequence of dispatched ids
DueTo(h, ids) ==
  SelectSeq(ids, LAMBDA i : h \in Receivers(LogRecord(i, LevelOf(i))))

C2_StartOnAliveFails ==
  [][(alive_event /\ calls' # calls) =>
       /\ \A t \in Threads :
            pc[t] = "idle" => pc'[t] \notin {"start_set", "task_mode"}
       /\ returned'.op \in {"start", "start_async_task"} =>
            /\ returned'.value = "RuntimeError: already running"
            /\ UNCHANGED << listenerVars, pc, args >>]_vars

\* C2 witness: a start call has been refused on a listener whose consumer
\* is running
C2_Witness ==
  /\ returned.op \in {"start", "start_async_task"}
  /\ returned.value = "RuntimeError: already running"
  /\ alive_event
  /\ Cardinality(Active) = 1

\* C3: start() on an idle listener whose _is_async is False starts the
\* consumption loop on a worker thread and returns while the listener is
\* alive; with _is_async True it runs the cooperative routine (or fails to)
C3_ConfiguredModeIsUsed ==
  [][\A t \in Threads :
       (pc[t] = "start_mode" /\ pc'[t] # "start_mode") =>
         IF is_async_flag
           THEN \/ pc'[t] = "start_run"
                     /\ consumers'[args'[t].mine].mode = "coop"
                \/ returned'.value = "RuntimeError: asyncio"
           ELSE /\ \E c \in ConsumerIds :
                     /\ consumers[c].pc = "none"
                     /\ consumers'[c].mode = "worker"
                /\ returned'.op = "start"
                /\ returned'.value = "None"
                /\ alive_event']_vars

\* the consumption loops that are between entering the loop and leaving it
Consuming ==
  {c \in ConsumerIds : consumers[c].pc \in {"loop", "dequeue", "sleep", "got"}}

\* C4: under every interleaving of concurrent start() and start_async_task()
\* calls at most one consumption loop is active for the listener
C4_AtMostOneConsumer == Cardinality(Consuming) <= 1

\* a call of stop() begins with this step
StopBegins ==
  /\ calls' # calls
  /\ \/ returned'.op = "stop"
     \/ \E t \in Threads :
          pc[t] = "idle" /\ pc'[t] = "join" /\ args'[t].op = "stop"

\* every call of stop() puts exactly one sentinel at the tail of the queue,
\* as its first step, and nothing else puts a sentinel
OneSentinelPerStop ==
  /\ StopBegins => /\ queue' = Append(queue, None)
                   /\ enqueued' = Append(enqueued, None)
  /\ ~StopBegins => Sentinels(enqueued') = Sentinels(enqueued)

\* a call stop(join=True, timeout=None) returns normally with this step
StopJoinReturns ==
  /\ returned'.op = "stop"
  /\ returned'.value = "None"
  /\ returned'.wait # "none"
  /\ ~returned'.timeout

\* C5 as stated: every stop() puts exactly one sentinel at the tail of the
\* queue before it waits, and with join and no timeout stop() returns only
\* once alive_event is clear
C5_StopWaitsForIdle ==
  [][/\ OneSentinelPerStop
     /\ StopJoinReturns => ~alive_event']_vars

\* C5 amended: every stop() puts exactly one sentinel at the tail of the
\* queue before it waits; with join, asyn=False and no timeout stop() returns
\* only when it has found alive_event clear (or the worker thread it joined
\* has ended); with asyn=True it creates the join_async task and returns
\* without waiting
C5_StopWaitsUnlessAsyn ==
  [][/\ OneSentinelPerStop
     /\ StopJoinReturns =>
          \E t \in Threads :
            /\ pc[t] # "idle" /\ pc'[t] = "idle"
            /\ \/ returned'.wait = "spin" /\ ~alive_event /\ ~alive_event'
               \/ /\ returned'.wait = "thread"
                  /\ consumers[args[t].target].pc = "done"
               \/ /\ returned'.wait = "task"
                  /\ args[t].asyn
                  /\ joiner.pc = "none" /\ joiner'.pc = "new"]_vars

\* C5 witness: stop(join=True) has returned from its wait after the consumer
\* took the sentinel and cleared alive_event
C5_Witness ==
  /\ returned.op = "stop"
  /\ returned.wait = "spin"
  /\ ~returned.timeout
  /\ ~alive_event
  /\ Sentinels(Taken) # << >>
  /\ \E c \in ConsumerIds : consumers[c].pc = "done"

\* a step of the consumption routine c
ConsumerStep(c) ==
  \/ MonitorLoop(c)
  \/ Dequeue(c)
  \/ Wake(c)
  \/ Handle(c)
  \/ Clear(c)

\* C6: once terminate() has set terminate_event on an alive listener, a
\* consumer that can run can always go on towards leaving its loop, without
\* anything being enqueued - also when the queue is empty
C6_TerminateEndsConsumer ==
  \A c \in ConsumerIds :
    (terminate_event /\ alive_event /\ c \in Active /\ Scheduled(c))
      => ENABLED ConsumerStep(c)

\* C7: the sentinel is never passed to handle(); the consumer that takes it
\* acknowledges it once and leaves the loop; and the number of task_done()
\* calls is the number of items the consumers have finished with (all of them
\* when the queue has task_done, none when it has not)
C7_SentinelAcknowledgedNotDispatched ==
  /\ [](/\ \A i \in DOMAIN dispatched : dispatched[i] # None.id
        /\ \A h \in HandlerIds :
             \A i \in DOMAIN delivered[h] : delivered[h][i] # None.id
        /\ task_done_calls = IF has_task_done
                               THEN Len(Taken) - Cardinality(InHand)
                               ELSE 0)
  /\ [][Len(Sentinels(Taken')) # Len(Sentinels(Taken)) =>
          /\ \E c \in ConsumerIds :
               /\ consumers[c].pc \in {"dequeue", "sleep"}
               /\ consumers'[c].pc = "clear"
               /\ consumers'[c].exit = "sentinel"
          /\ UNCHANGED logVars
          /\ task_done_calls' = task_done_calls
                                  + (IF has_task_done THEN 1 ELSE 0)]_vars

\* C7 witness: on a queue with task_done the consumer has dispatched two
\* records and taken the sentinel, with three acknowledgements
C7_Witness ==
  /\ has_task_done
  /\ task_done_calls = 3
  /\ Len(dispatched) = 2
  /\ \E c \in ConsumerIds : consumers[c].exit = "sentinel"

\* C8: alive_event is set only by the statement of start() or
\* start_async_task() that sets it, and cleared only by a consumption routine
\* that has taken the sentinel or seen terminate_event set; no other step
\* changes it
C8_AliveSetByStartClearedByLoop ==
  [][/\ (~alive_event /\ alive_event') =>
          \E t \in Threads :
            /\ pc[t] \in {"start_set", "task_set"}
            /\ pc'[t] \in {"start_mode", "task_create"}
     /\ (alive_event /\ ~alive_event') =>
          \E c \in ConsumerIds :
            /\ consumers[c].pc = "clear" /\ consumers'[c].pc = "done"
            /\ \/ consumers[c].exit = "sentinel" /\ Sentinels(Taken) # << >>
               \/ consumers[c].exit = "terminate" /\ terminate_event]_vars

\* C8 witness: the listener was started and its consumer has cleared
\* alive_event after the sentinel, with terminate_event never set
C8_Witness ==
  /\ ~alive_event
  /\ ~terminate_event
  /\ Sentinels(Taken) # << >>
  /\ Len(dispatched) = 1
  /\ \E c \in ConsumerIds : consumers[c].pc = "done"

\* C9: an assignment to is_async that fails with ValueError leaves _is_async
\* as it was
C9_FailedAssignmentKeepsMode ==
  [][(returned'.op = "is_async" /\ returned'.value = "ValueError")
       => is_async_flag' = is_async_flag]_vars

\* C10: __getstate__ changes nothing about the listener; on an alive
\* listener it raises PickleError and yields no state; on an idle listener it
\* yields a state without async_loop and handlers and with safe_handlers, in
\* which every handler without pickling hooks of its own has neither lock nor
\* stream
C10_GetStateOnlyWhenIdle ==
  [][returned'.op = "__getstate__" =>
       /\ UNCHANGED << listenerVars, pc, args >>
       /\ IF alive_event
            THEN /\ returned'.value = "PickleError"
                 /\ returned'.state = NoState
            ELSE /\ returned'.value = "dict"
                 /\ "safe_handlers" \in returned'.state.keys
                 /\ "async_loop" \notin returned'.state.keys
                 /\ "handlers" \notin returned'.state.keys
                 /\ DOMAIN returned'.state.safe_handlers = HandlerIds
                 /\ \A h \in HandlerIds :
                      LET safe == returned'.state.safe_handlers[h] IN
                        /\ safe.level = handlers[h].level
                        /\ safe.hooks \/ (~safe.lock /\ ~safe.stream)]_vars

\* C10 witness: __getstate__ has raised PickleError on a listener whose
\* consumer is running
C10_Witness ==
  /\ returned.op = "__getstate__"
  /\ returned.value = "PickleError"
  /\ alive_event
  /\ Consuming # {}

\* a call of join_normal (made by stop or terminate with join and
\* asyn=False) returns with this step
JoinNormalReturns ==
  /\ returned'.op \in {"stop", "terminate"}
  /\ returned'.wait \in {"spin", "thread"}

\* C11: a bounded wait returns, and does not raise, when its time is up:
\* dequeue_async gives None with exactly one TimeoutWarning, join_normal and
\* join_async on a listener that is still alive return with exactly one
\* TimeoutWarning; the timed-out wait leaves alive_event, terminate_event and
\* the queue as they were; and a wait that finds its condition met when it
\* tests it (an item in the queue, alive_event clear) issues no warning
C11_TimeoutWarnsOnce ==
  [][/\ returned'.warnings \in {0, 1}
     /\ returned'.warnings = 1 =>
          /\ returned'.value = "None"
          /\ returned'.timeout
          /\ UNCHANGED << queueVars, attrVars, consumers, logVars,
                          task_done_calls >>
     /\ returned'.op = "dequeue_async" =>
          /\ queue = << >> =>
               /\ returned'.warnings = 1
               /\ returned'.item = None
               /\ \E t \in Threads : pc[t] = "dq_sleep" /\ pc'[t] = "idle"
          /\ calls' # calls => (queue # << >> /\ returned'.warnings = 0)
          /\ returned'.warnings = 0 =>
               /\ returned'.value = "item"
               /\ returned'.item = Head(queue)
               /\ queue' = Tail(queue)
     /\ JoinNormalReturns =>
          /\ returned'.value = "None"
          /\ returned'.warnings = IF alive_event THEN 1 ELSE 0
     /\ returned'.op = "join_async" =>
          /\ alive_event => (returned'.value = "None" /\ returned'.warnings = 1)
          /\ joiner.pc = "new" => returned'.warnings = 0]_vars

\* C11 witness: dequeue_async(timeout) has returned None with one warning
\* while the listener is running, its consumer waiting on the empty queue
C11_Witness ==
  /\ returned.op = "dequeue_async"
  /\ returned.warnings = 1
  /\ returned.item = None
  /\ alive_event
  /\ queue = << >>
  /\ \E c \in ConsumerIds : consumers[c].pc = "sleep"

\* the test of the consumption loop, lines 288 / 308: record is self._sentinel
IsSentinel(record) == record = None

C13_HandlersByLevel ==
  \A h \in HandlerIds :
    delivered[h] =
      IF respect_handler_level
        THEN SelectSeq(dispatched, LAMBDA i : LevelOf(i) >= handlers[h].level)
        ELSE dispatched

\* C13 witness: with respect_handler_level the ERROR record went to both
\* handlers and the INFO record only to the handler thresholded at INFO
C13_Witness ==
  /\ respect_handler_level
  /\ dispatched = << 1, 2 >>
  /\ delivered[1] = << 1, 2 >>
  /\ delivered[2] = << 1 >>

\* the consumer task c is in the middle of a run: it has entered the loop and
\* is not waiting in asyncio.sleep
MidRun(c) ==
  /\ consumers[c].via = "task"
  /\ consumers[c].pc \in {"loop", "dequeue", "got", "clear"}

\* C14: while a consumer task is between two waits on the empty queue - in
\* particular while it holds a record it has taken and not yet handled and
\* acknowledged - neither the code of its thread nor another task of the same
\* event loop takes a step; terminate_event is tested once per iteration,
\* before the dequeue; and an item is taken only by that dequeue
C14_YieldsOnlyOnEmptyQueue ==
  [][/\ \A c \in ConsumerIds :
          MidRun(c) =>
            /\ pc'[consumers[c].owner] = pc[consumers[c].owner]
            /\ joiner.owner = consumers[c].owner => joiner' = joiner
            /\ \A d \in ConsumerIds \ {c} :
                 (consumers[d].via = "task"
                    /\ consumers[d].owner = consumers[c].owner)
                   => consumers'[d] = consumers[d]
     /\ \A c \in ConsumerIds :
          /\ (consumers[c].pc # "dequeue" /\ consumers'[c].pc = "dequeue")
               => (consumers[c].pc \in {"new", "loop"} /\ ~terminate_event)
          /\ (consumers[c].pc # "got" /\ consumers'[c].pc = "got")
               => consumers[c].pc \in {"dequeue", "sleep"}
          /\ (consumers[c].pc = "got" /\ consumers'[c].pc # "got")
               => (consumers'[c].pc = "loop"
                     /\ Len(dispatched') = Len(dispatched) + 1)]_vars

\* C14 witness: a consumer task holds a record while a join_async task of the
\* same event loop is waiting to run
C14_Witness ==
  \E c \in ConsumerIds :
    /\ consumers[c].via = "task"
    /\ consumers[c].pc = "got"
    /\ joiner.pc \in {"new", "sleep"}
    /\ joiner.owner = consumers[c].owner

\* C15: while the listener is idle no sentinel is left in its queue
C15_NoStaleSentinel ==
  (~alive_event /\ Active = {} /\ Starting = {}) => Sentinels(queue) = << >>

(* ===================== properties of the AdvancedLogger ================ *)
\* the number a known level stands for
Resolved(level) == IF level.str THEN levels[level.name] ELSE level.num
Known(level) == level.str => level.name \in LevelNames

\* C16: isEnabledFor(level) is true exactly when the logger is not disabled
\* and the number the level stands for is at least the logger's level; so
\* each named level is enabled on a logger set to it, not enabled on a logger
\* set one above it, and no level is enabled on a disabled logger
C16_IsEnabledFor ==
  (logcall.op = "isEnabledFor") =>
    /\ Known(logcall.level) =>
         /\ logcall.raised = "none"
         /\ logcall.enabled <=>
              (~logger_disabled /\ Resolved(logcall.level) >= logger_level)
    /\ \A L \in {"DEBUG", "INFO", "WARNING", "ERROR", "CRITICAL"} :
         (logcall.level = Str(L) /\ ~logger_disabled) =>
           /\ logger_level = default_levels[L] => logcall.enabled
           /\ logger_level = default_levels[L] + 1 => ~logcall.enabled
    /\ logger_disabled => ~logcall.enabled

\* C16 witness: isEnabledFor("ERROR") was false on an enabled logger set one
\* above ERROR
C16_Witness ==
  /\ logcall.op = "isEnabledFor"
  /\ logcall.level = Str("ERROR")
  /\ logger_level = ERROR + 1
  /\ ~logger_disabled
  /\ ~logcall.enabled

\* the calls that log
LogOps == {"log", "method", "trace_log", "trace_log_default"}

\* C17: get_level gives a number back unchanged and a name of the mapping
\* its number, and raises KeyError for a name that is not in the mapping;
\* log and trace_log with such a name raise before anything is delegated or
\* emitted; and no call changes an attribute of the logger
C17_UnknownLevelFails ==
  /\ [](/\ logcall.op = "get_level" =>
             IF Known(logcall.level)
               THEN /\ logcall.raised = "none"
                    /\ logcall.number = Resolved(logcall.level)
               ELSE logcall.raised = "KeyError"
        /\ (logcall.op \in {"log", "trace_log"} /\ ~Known(logcall.level)) =>
             /\ logcall.raised = "KeyError"
             /\ logcall.delegated = 0
             /\ logcall.emitted = << >>
        /\ (logcall.op \in LogOps /\ Known(logcall.level)) =>
             logcall.raised = "none")
  /\ [][logcall'.op # "none" =>
          UNCHANGED << logger_level, logger_disabled, quick_check,
                       allow_append, append_message >>]_vars

\* C17 witness: trace_log with a name that is not in the mapping has raised
\* KeyError on a logger that would have emitted at any level
C17_Witness ==
  /\ logcall.op = "trace_log"
  /\ logcall.level = Str("EXCEPTION")
  /\ logcall.raised = "KeyError"
  /\ logger_level = DEBUG
  /\ ~logger_disabled

\* C18: debug, info, warning, error, critical and log delegate to the wrapped
\* logger at most once: with quick_check exactly when the logger is not
\* disabled and the level is at least the logger's level, without quick_check
\* always once; a call that does not delegate emits nothing, no call emits
\* more than one record, and a call whose level is enabled for the wrapped
\* logger emits exactly one record, at that level
C18_DelegatesAtMostOnce ==
  (logcall.op \in {"log", "method"} /\ logcall.raised = "none") =>
    LET num == Resolved(logcall.level) IN
      /\ logcall.delegated \in {0, 1}
      /\ quick_check =>
           (logcall.delegated = 1
              <=> (~logger_disabled /\ num >= logger_level))
      /\ ~quick_check => logcall.delegated = 1
      /\ logcall.delegated = 0 => logcall.emitted = << >>
      /\ Len(logcall.emitted) <= 1
      /\ (~logger_disabled
            /\ num >= (IF logger_level # 0 THEN logger_level ELSE RootLevel))
           => /\ Len(logcall.emitted) = 1
              /\ logcall.emitted[1].levelno = num

\* C18 witness: with quick_check, debug() on a logger set to INFO was
\* rejected without reaching the wrapped logger
C18_Witness ==
  /\ logcall.op = "method"
  /\ logcall.level = Str("DEBUG")
  /\ quick_check
  /\ logger_level = INFO
  /\ logcall.delegated = 0
  /\ logcall.emitted = << >>

\* the message a call hands on before the append string: msg, and for
\* trace_log the trace message
BaseMsg(op) ==
  IF op \in {"trace_log", "trace_log_default"}
    THEN << "class", "(", "name", ")", " -> ", "func", ": ", "msg" >>
    ELSE << "msg" >>

\* C19: the message of an emitted record is the append string followed by
\* the message, the append string put in front once, exactly when append is
\* True or append is None and allow_append is set; else it is the message
\* alone; for trace_log the message is the trace message
C19_AppendOnce ==
  (logcall.op \in LogOps /\ logcall.emitted # << >>) =>
    logcall.emitted[1].msg =
      IF logcall.append = "True"
           \/ (logcall.append = "None" /\ allow_append)
        THEN append_message \o BaseMsg(logcall.op)
        ELSE BaseMsg(logcall.op)

\* C19 witness: trace_log with append left None on a logger with the module
\* information as append string has emitted the string followed by the trace
\* message
C19_Witness ==
  /\ logcall.op = "trace_log"
  /\ logcall.append = "None"
  /\ allow_append
  /\ Len(append_message) = 5
  /\ Len(logcall.emitted) = 1
  /\ Len(logcall.emitted[1].msg) = 13

\* x is one of the pieces of the line
Contains(line, x) == \E i \in DOMAIN line : line[i] = x

C30_StopReturnsJoinTask ==
  [][(returned'.op \in {"stop", "terminate"}
        /\ returned'.value \in {"None", "task"}) =>
       (returned'.value = "task" <=> returned'.wait = "task")]_vars

(* ===================== children and parents of loggers ================= *)
\* the dotted name '<parent name>.<name>'
Dotted(parent, name) == LoggerNameOf(parent) \o << name >>

\* C21: getChild(name) on a logger of class T returns a T that wraps the
\* logger named '<parent name>.<name>'; after setParent(p) the logger is the
\* one named '<p name>.<own stem>', with the propagate flag, the effective
\* level, the filters and the handlers it had before
C21_ChildrenAndParents ==
  [][/\ hcall'.op = "getChild" =>
          /\ hcall'.type = self_type
          /\ hcall'.logger = Dotted(self_logger, hcall'.name)
     /\ hcall'.op = "setParent" =>
          /\ self_logger' = Dotted(hcall'.parent, name_stem(self_logger))
          /\ manager'[self_logger'].propagate = manager[self_logger].propagate
          /\ getEffectiveLevelOf(manager', self_logger')
               = getEffectiveLevelOf(manager, self_logger)
          /\ manager[self_logger].filters \subseteq manager'[self_logger'].filters
          /\ manager[self_logger].handlers
               \subseteq manager'[self_logger'].handlers]_vars

(* ================== pickling and unpickling of handlers ================ *)
\* the handler has an open stream
HasOpenStream(handler) ==
  "stream" \in DOMAIN handler.dict /\ Truthy(handler.dict["stream"])

\* C22: the snapshot __getstate__ returns never has the lock; for a file
\* handler with an open stream the call closes the stream and the snapshot
\* has stream = True, and with no open stream the snapshot's stream is None
\* and the handler is left as it was
C22_SnapshotWithoutLock ==
  [][hevent'.op = "__getstate__" =>
       /\ hsnap'.taken
       /\ "lock" \notin DOMAIN hsnap'.dict
       /\ hobj.cls \in FileClasses =>
            IF HasOpenStream(hobj)
              THEN /\ hevent'.closed
                   /\ hobj'.dict["stream"] = "None"
                   /\ hsnap'.dict["stream"] = "True"
              ELSE /\ ~hevent'.closed
                   /\ hobj' = hobj
                   /\ hsnap'.dict["stream"] = "None"]_vars

C22_Witness ==
  /\ hevent.op = "__getstate__"
  /\ hevent.closed
  /\ HasOpenStream(hevent.before)
  /\ hsnap.dict["stream"] = "True"

\* C23: __setstate__ leaves the handler with a lock made by the call, and
\* opens the stream, on the path and with the mode of the handler the
\* snapshot was taken of, exactly when the snapshot's stream flag is set
C23_RestoreLocksAndReopens ==
  [][hevent'.op = "__setstate__" =>
       /\ "lock" \in DOMAIN hnew'.dict
       /\ hnew'.dict["lock"] > locks_made
       /\ hobj.cls \notin FileClasses => hevent'.opened = << >>
       /\ hobj.cls \in FileClasses =>
            IF hsnap.dict["stream"] = "True"
              THEN /\ hevent'.opened = << hobj.dict["baseFilename"],
                                          hobj.dict["mode"] >>
                   /\ hnew'.dict["stream"] = "file"
              ELSE /\ hevent'.opened = << >>
                   /\ hnew'.dict["stream"] = "None"]_vars

C23_Witness ==
  /\ hevent.op = "__setstate__"
  /\ hevent.opened # << >>
  /\ hsnap.dict["stream"] = "True"

\* C24: a handler with no open stream that is captured and then restored
\* gives a handler of the same class with the same fields, the threshold and
\* the formatter among them, except for the lock, which is a new one
C24_RoundTrip ==
  [][(/\ hevent'.op = "__setstate__"
      /\ hevent.op = "__getstate__"
      /\ ~HasOpenStream(hevent.before)) =>
       /\ hnew'.cls = hevent.before.cls
       /\ DOMAIN hnew'.dict = DOMAIN hevent.before.dict
       /\ Pop(hnew'.dict, "lock") = Pop(hevent.before.dict, "lock")
       /\ hnew'.dict["level"] = hevent.before.dict["level"]
       /\ hnew'.dict["formatter"] = hevent.before.dict["formatter"]
       /\ hnew'.dict["lock"] \notin {0, hevent.before.dict["lock"]}]_vars

C24_Witness ==
  /\ hevent.op = "__setstate__"
  /\ ~HasOpenStream(hobj)
  /\ hsnap.dict = Pop(hobj.dict, "lock")
  /\ Pop(hnew.dict, "lock") = hsnap.dict
  /\ hobj.dict["formatter"] = "PreciseFormatter"

BridgeUnchanged ==
  UNCHANGED << showwarning, saved_showwarning, capturing,
               current_showwarning, warning_handler >>

\* C26: capture_warnings(True) on a capturing bridge changes nothing, and
\* the saved function is at all times either none or the function that was
\* in place before the bridge installed anything, never a function that the
\* bridge itself installed
C26_SavedOnce ==
  /\ [](saved_showwarning \in {NoFn, Original})
  /\ [][(wevent'.op = "capture_warnings" /\ wevent'.capture /\ capturing)
          => BridgeUnchanged]_vars

\* C27: capture_warnings(True, init) on a bridge that is not capturing, for
\* either value of init, sets capturing and makes warnings.showwarning a
\* replacement that sends a warning without file to the warning handler;
\* and whenever capturing is set such a replacement is installed
C27_CaptureInstalls ==
  /\ [](capturing => /\ current_showwarning # NoFn
                     /\ showwarning = current_showwarning)
  /\ [][(/\ wevent'.op = "capture_warnings"
          /\ wevent'.capture
          /\ ~capturing
          /\ saved_showwarning = NoFn) =>
           /\ capturing'
           /\ showwarning'.kind = "replacement"
           /\ warning_handler' # "None"
           /\ Route(showwarning', FALSE) = warning_handler']_vars

\* C28: capture_warnings(False) on a capturing bridge makes
\* warnings.showwarning the saved function again and clears capturing; on a
\* bridge that was never enabled it changes nothing
C28_DisableRestores ==
  [][(wevent'.op = "capture_warnings" /\ ~wevent'.capture) =>
       /\ capturing =>
            /\ saved_showwarning # NoFn
            /\ showwarning' = saved_showwarning
            /\ saved_showwarning' = saved_showwarning
            /\ ~capturing'
       /\ saved_showwarning = NoFn => BridgeUnchanged]_vars

C28_Witness ==
  /\ wevent.op = "capture_warnings"
  /\ ~wevent.capture
  /\ wevent.was_capturing
  /\ ~capturing
  /\ showwarning = saved_showwarning
  /\ current_showwarning.kind = "replacement"

\* C29: set_warning_logger() without arguments on an instance, with capture
\* enabled, installs the warning handler made from that instance, and a
\* warning without file is then logged through that instance
C29_InstanceHandles ==
  [][(/\ wevent'.op = "set_warning_logger"
      /\ wevent'.handler_arg = "None"
      /\ wevent'.showwarning_arg = NoFn
      /\ capturing) =>
       /\ wevent'.raised = "none"
       /\ warning_handler' = "instance"
       /\ Route(showwarning', FALSE) = "instance"]_vars

\* C38: enable, disable, enable leaves the bridge capturing again, with the
\* replacement installed again when the default redirect is asked for, as
\* after the first enable; and whenever capturing is false after an enable,
\* warnings.showwarning is the saved function
C38_Repeatable ==
  /\ []((~capturing /\ saved_showwarning # NoFn) =>
          showwarning = saved_showwarning)
  /\ [][(/\ wevent'.op = "capture_warnings"
          /\ wevent'.capture
          /\ ~capturing
          /\ saved_showwarning # NoFn) =>
           /\ capturing'
           /\ wevent'.init => showwarning'.kind = "replacement"]_vars

(* ==================== exception() and the quick check ================== *)
\* C36: exception(msg) on a logger for which ERROR is enabled emits exactly
\* one record and raises no level-lookup error, with the quick check
\* switched on as with it switched off
C36_ExceptionLogs ==
  (logcall.op = "exception" /\ LoggerIsEnabledFor(ERROR)) =>
     /\ logcall.raised = "none"
     /\ Len(logcall.emitted) = 1

\* what a call leaves behind: the error it raised and the records emitted
Effect(outcome) == << outcome.raised, outcome.emitted >>

\* C37: switching the quick check on or off, with level, disabled flag and
\* append settings as they are, changes for no call of log, of a level
\* method or of trace_log, at any level, the records emitted
C37_QuickCheckOnlyOptimises ==
  [][(/\ quick_check' # quick_check
      /\ UNCHANGED << logger_level, logger_disabled, allow_append,
                      append_message >>) =>
       \A append \in AppendArgs :
         /\ \A level \in LevelArgs :
              /\ Effect(log(level, Msg, append))'
                   = Effect(log(level, Msg, append))
              /\ Effect(trace_log(ClassArg, FuncArg, Msg, NameArg, level,
                                  append))'
                   = Effect(trace_log(ClassArg, FuncArg, Msg, NameArg, level,
                                      append))
         /\ Effect(trace_log(ClassArg, FuncArg, Msg, NameArg, NoLevel,
                             append))'
              = Effect(trace_log(ClassArg, FuncArg, Msg, NameArg, NoLevel,
                                 append))
         /\ \A name \in LevelNames :
              Effect(LevelMethod(name, Msg, append))'
                = Effect(LevelMethod(name, Msg, append))]_vars

\* a call that the quick check ended before the wrapped logger was asked,
\* on a logger whose own level is set, and one that it let through
C37_Witness ==
  /\ quick_check
  /\ logcall.op \in LogOps
  /\ logcall.raised = "none"
  /\ logcall.delegated = 0
  /\ logger_level # NOTSET
  /\ ~logger_disabled

(* ================== the listener after its loop has ended ============== *)
\* C33: whenever no consumption routine of the listener is executing, and
\* no call of start() or start_async_task() is under way, alive_event is
\* not set, so that start() is accepted and __getstate__ permitted
C33_AliveNeverOutlivesLoop ==
  (Active = {} /\ Starting = {}) => ~alive_event

\* C34: a run that is started after an earlier run of the listener has
\* ended starts with no terminate request pending, so that it is the
\* sentinel, after the records before it, that ends the new run
C34_ReusableAfterTerminate ==
  [][(/\ ~alive_event
      /\ alive_event'
      /\ \E c \in ConsumerIds : consumers[c].pc = "done") =>
       ~terminate_event']_vars

\* C35: while stop(join=True, asyn=False) without timeout waits in
\* join_normal on the thread whose event loop drives the consumer task of
\* an alive listener, that task can take its next step, so that it sees the
\* sentinel and the call returns
C35_SyncJoinLetsTaskRun ==
  \A t \in Threads : \A c \in Active :
    (/\ pc[t] = "join_spin"
     /\ args[t].op = "stop"
     /\ ~args[t].timeout
     /\ alive_event
     /\ consumers[c].via = "task"
     /\ consumers[c].owner = t) =>
      Scheduled(c)

(* ======================= loggers of one object ========================= *)
\* C32: update_loggers(d) on an object changes the loggers of that object
\* only: class_loggers and the loggers of every other instance, a deep copy
\* of the object or the object it was deep-copied from included, stay as
\* they were
C32_LoggersBelongToObject ==
  [][oevent'.op = "update_loggers" =>
       /\ class_loggers' = class_loggers
       /\ \A p \in 1..Len(objects) :
            p # oevent'.obj => LoggersOf(p)' = LoggersOf(p)]_vars

(* ============================ timed pairs ============================== *)
\* the pair of type type_ stored under key, as a sequence of at most one
PairAt(ps, type_, key) ==
  SelectSeq(ps[type_], LAMBDA p : p.name = key)

\* C31: while only unnamed calls are made, the k-th pair_begin(t) stores its
\* pair under k-1; while begins and ends of type t alternate, a pair_end(t)
\* sets the end of the pair the pair_begin(t) before it opened and leaves
\* the other pairs as they were; and after such alternations every pair of
\* t has an end, and pair_average_difference(t) over two or more pairs is
\* defined
C31_UnnamedPairs ==
  /\ [](\A type_ \in PairTypes :
          (pair_hist.alternating[type_] /\ pair_hist.opened[type_] = << >>) =>
             /\ \A i \in 1..Len(pairs[type_]) :
                  pairs[type_][i].ending # << >>
             /\ (/\ pevent.op = "pair_average_difference"
                 /\ pevent.type = type_
                 /\ pair_hist.begins[type_] >= 2) => pevent.raised = "none")
  /\ [][(pevent'.op = "pair_begin" /\ pair_hist'.only_unnamed) =>
          /\ pevent'.key = << pair_hist.begins[pevent'.type] >>
          /\ PairAt(pairs', pevent'.type, pevent'.key[1])
               = << [name |-> pevent'.key[1], beginning |-> clock',
                     ending |-> << >>] >>]_vars
  /\ [][(/\ pevent'.op = "pair_end"
         /\ pair_hist'.only_unnamed
         /\ pair_hist'.alternating[pevent'.type]) =>
          /\ pevent'.raised = "none"
          /\ pevent'.key = pair_hist.opened[pevent'.type]
          /\ \A type_ \in PairTypes : \A i \in 1..Len(pairs[type_]) :
               pairs'[type_][i] =
                 IF type_ = pevent'.type
                    /\ << pairs[type_][i].name >> = pair_hist.opened[type_]
                   THEN [pairs[type_][i] EXCEPT !.ending = << clock' >>]
                   ELSE pairs[type_][i]]_vars

(* ========================= pickling the wrapper ======================== *)
\* C39: pickle.dumps of the wrapper leaves the live logger with the handler
\* objects it had, logging through the wrapper raises nothing and reaches
\* the handlers of the logger, before as after a dumps and whether or not
\* the result is loaded; and loads gives a wrapper with the attributes of
\* an AdvancedLogger and as many handlers as were written
C39_GetStateKeepsLiveLogger ==
  /\ [](gevent.op = "log" => gevent.raised = "none")
  /\ [][(/\ gevent'.op = "dumps"
         /\ wlogger.has_handlers
         /\ wlogger.handlers # << >>) =>
          /\ gevent'.raised = "none"
          /\ wlogger'.has_handlers
          /\ LocksOf(wlogger'.handlers) = LocksOf(wlogger.handlers)]_vars
  /\ [][gevent'.op = "loads" =>
          /\ wrestored'[1].keys = WrapperKeys
          /\ Len(wrestored'[1].handlers) = Len(wjar[1].handlers)]_vars

====
